---- MODULE Spec2Model ----
(***************************************************************************)
(* A model of the planetary position engine of py-astropc:                 *)
(*   astropc/kepler.py, astropc/mathutils.py, astropc/planets/orbit.py,    *)
(*   astropc/planets/pert.py, astropc/planets/planet.py and                *)
(*   astropc/planets/sphera.py.                                            *)
(*                                                                         *)
(* Numbers.  The program computes with IEEE-754 doubles.  The model        *)
(* computes with scaled integers that are rounded to a fixed number of     *)
(* significant bits, i.e. with a small floating-point format:              *)
(*   - radians, eccentricities and other pure numbers are counted in       *)
(*     units of 1e-8 (S units make 1.0);                                   *)
(*   - arc-degrees are counted in units of 1e-6 (DEG units make one        *)
(*     degree), astronomical units in units of 1e-7 (AU units make one);   *)
(*   - the result of an arithmetic operation is rounded to MantBits        *)
(*     significant bits by Fl, ties to even, as a double is rounded to 53. *)
(* The library functions sin, cos, atan, atan2, asin, sqrt of the Python   *)
(* math module are evaluated by series on these integers.                  *)
(***************************************************************************)
EXTENDS Integers, Sequences, FiniteSets, TLC

S == 100000000
DEG == 1000000
AU == 10000000

\* math.pi, mathutils.PI2 = pi * 2 and mathutils.PI_HALF = pi / 2.0
PI == 314159266
PI2 == PI * 2
PI_HALF == 157079633

Abs(x) == IF x < 0 THEN -x ELSE x
Sgn(x) == IF x < 0 THEN -1 ELSE IF x > 0 THEN 1 ELSE 0

\* The spacing of the representable numbers around a value of magnitude a:
\* 2^28 and more units need more than MantBits = 28 bits.
Spacing(a) ==
    IF a < 268435456 THEN 1
    ELSE IF a < 536870912 THEN 2
    ELSE IF a < 1073741824 THEN 4
    ELSE 8

\* The multiple of g nearest to a >= 0, ties to the even multiple.
Nearest(a, g) ==
    IF 2 * (a % g) > g \/ (2 * (a % g) = g /\ (a \div g) % 2 = 1)
    THEN ((a \div g) + 1) * g
    ELSE (a \div g) * g

\* Round v to the nearest representable number, ties to even.
Fl(v) == IF v = 0 THEN 0 ELSE Sgn(v) * Nearest(Abs(v), Spacing(Abs(v)))

\* a * b for S-scaled b, rounded to nearest: the operands are split into
\* limbs of 10000 = sqrt(S) so that no intermediate product leaves 32 bits.
MulLimbs(ah, al, bh, bl) ==
    ah * bh + ((ah * bl) \div 10000) + ((al * bh) \div 10000)
    + (((((ah * bl) % 10000) + ((al * bh) % 10000)) * 10000 + al * bl
        + (S \div 2)) \div S)

MulU(a, b) == MulLimbs(a \div 10000, a % 10000, b \div 10000, b % 10000)

MulFx(a, b) ==
    IF a = 0 \/ b = 0 THEN 0
    ELSE Fl(Sgn(a) * Sgn(b) * MulU(Abs(a), Abs(b)))

\* Decimal long division: the next digit of r / b after the point, r < b,
\* and the remainder it leaves.
Digit(r, b) == (r * 10) \div b
Rest(r, b) == (r * 10) % b

\* The first seven digits of r / b after the point, rounded to nearest.
Digits7(r, b) ==
    LET r1 == Rest(r, b)
        r2 == Rest(r1, b)
        r3 == Rest(r2, b)
        r4 == Rest(r3, b)
        r5 == Rest(r4, b)
        r6 == Rest(r5, b)
        r7 == Rest(r6, b)
    IN  Digit(r, b) * 1000000 + Digit(r1, b) * 100000 + Digit(r2, b) * 10000
        + Digit(r3, b) * 1000 + Digit(r4, b) * 100 + Digit(r5, b) * 10
        + Digit(r6, b) + (IF 2 * r7 >= b THEN 1 ELSE 0)

\* The first eight digits of r / b after the point, rounded to nearest.
Digits8(r, b) ==
    LET r1 == Rest(r, b)
        r2 == Rest(r1, b)
        r3 == Rest(r2, b)
        r4 == Rest(r3, b)
        r5 == Rest(r4, b)
        r6 == Rest(r5, b)
        r7 == Rest(r6, b)
        r8 == Rest(r7, b)
    IN  Digit(r, b) * 10000000 + Digit(r1, b) * 1000000
        + Digit(r2, b) * 100000 + Digit(r3, b) * 10000 + Digit(r4, b) * 1000
        + Digit(r5, b) * 100 + Digit(r6, b) * 10 + Digit(r7, b)
        + (IF 2 * r8 >= b THEN 1 ELSE 0)

\* a / b for magnitudes a >= 0, b > 0, as an S-scaled number.
RECURSIVE DivU(_, _)
DivU(a, b) ==
    IF b >= 200000000 THEN DivU(a \div 10, b \div 10)
    ELSE (a \div b) * S + Digits8(a % b, b)

\* a / b, b # 0 (the caller raises ZeroDivisionError for b = 0).
DivFx(a, b) ==
    IF a = 0 /\ b # 0 THEN 0
    ELSE Fl(Sgn(a) * Sgn(b) * DivU(Abs(a), Abs(b)))

\* math.fmod(x, r): the remainder has the sign of x.
fmod(x, r) == Sgn(x) * (Abs(x) % r)

\* The alternating series t - t*z2/((k+1)(k+2)) + ... up to the term of
\* degree last, t being the term of degree k.
RECURSIVE PowerSeries(_, _, _, _)
PowerSeries(t, z2, k, last) ==
    IF k = last THEN t
    ELSE t - PowerSeries(MulFx(t, z2) \div ((k + 1) * (k + 2)), z2, k + 2,
                         last)

\* The sine and cosine series on [-pi/4, pi/4].
SinCore(z) == PowerSeries(z, MulFx(z, z), 1, 9)
CosCore(z) == PowerSeries(S, MulFx(z, z), 0, 10)

\* The quarter turn nearest to y, and what is left of y.
Quadrant(y) == (y + (PI_HALF \div 2)) \div PI_HALF
Octant(y) == y - Quadrant(y) * PI_HALF

\* A double is much finer near zero than one unit of the model: the sine of
\* a nonzero double is never 0.0 and no double has the cosine 0.0.  A series
\* value of 0 at an argument that is not 0 stands for the smallest magnitude.
NonZero(v, sign) == IF v = 0 THEN sign ELSE v

\* The sine and the cosine of n quarter turns and z
SinTurn(n, z) ==
    NonZero((IF n < 2 THEN 1 ELSE -1)
               * (IF n % 2 = 0 THEN SinCore(z) ELSE CosCore(z)),
            IF n < 2 THEN 1 ELSE -1)

CosTurn(n, z) ==
    NonZero((IF n = 0 \/ n = 3 THEN 1 ELSE -1)
               * (IF n % 2 = 0 THEN CosCore(z) ELSE SinCore(z)),
            IF n = 0 \/ n = 3 THEN 1 ELSE -1)

\* math.sin
Sin(x) ==
    IF x = 0 THEN 0 ELSE SinTurn(Quadrant(x % PI2) % 4, Octant(x % PI2))

\* math.cos
Cos(x) ==
    IF x = 0 THEN S ELSE CosTurn(Quadrant(x % PI2) % 4, Octant(x % PI2))

\* math.sqrt of x >= 0 by Newton's iteration from above: the mean of x and 1
\* is not below the root.
RECURSIVE SqrtIter(_, _)
SqrtIter(x, r) ==
    LET n == (r + DivU(x, r)) \div 2
    IN  IF n >= r THEN r ELSE SqrtIter(x, n)

Sqrt(x) == IF x = 0 THEN 0 ELSE Fl(SqrtIter(x, (x + S + 1) \div 2))

\* The arctangent series for |y| <= tan(pi/8).
RECURSIVE OddSeries(_, _, _, _)
OddSeries(p, y2, k, last) ==
    IF k = last THEN p \div k
    ELSE (p \div k) - OddSeries(MulFx(p, y2), y2, k + 2, last)

AtanCore(y) == OddSeries(y, MulFx(y, y), 1, 19)

\* atan(r) for 0 <= r <= 1
AtanUnit(r) ==
    IF r > 41421356
    THEN (PI_HALF \div 2) - AtanCore(DivU(S - r, S + r))
    ELSE AtanCore(r)

\* atan(n / d) for 0 <= n <= d, d > 0.
AtanU(n, d) == AtanUnit(DivU(n, d))

\* The angle of the point (x, y), t being the angle between its direction
\* and the nearer axis.
AtanPlace(y, x, t) ==
    (IF y < 0 THEN -1 ELSE 1)
       * (IF x >= 0 THEN (IF Abs(x) >= Abs(y) THEN t ELSE PI_HALF - t)
          ELSE Fl(PI - (IF Abs(x) >= Abs(y) THEN t ELSE PI_HALF - t)))

Smaller(a, b) == IF a <= b THEN a ELSE b
Larger(a, b) == IF a <= b THEN b ELSE a

\* math.atan2(y, x)
Atan2(y, x) ==
    IF x = 0 /\ y = 0 THEN 0
    ELSE AtanPlace(y, x, AtanU(Smaller(Abs(x), Abs(y)),
                               Larger(Abs(x), Abs(y))))

\* math.atan(n / d), d # 0: the quotient of two doubles may be far larger
\* than any number of the model, so the arctangent is taken of the pair.
AtanQ(n, d) == Atan2(n * Sgn(d), Abs(d))

\* math.asin(x), |x| <= 1
Asin(x) == Atan2(x, Sqrt(S - MulFx(x, x)))

\* math.radians of DEG-scaled arc-degrees and math.degrees
radians(d) == MulFx(d, 174532925)
degrees(r) ==
    LET a == Abs(r)
        n == 9 * (a % PI_HALF)
    IN  IF r = 0 THEN 0
        ELSE Sgn(r) * Fl((a \div PI_HALF) * (90 * DEG)
                         + (n \div PI_HALF) * 10000000
                         + Digits7(n % PI_HALF, PI_HALF))

(***************************************************************************)
(* astropc/kepler.py                                                       *)
(***************************************************************************)

\* _DELTA = 1e-7, the precision for the Kepler equation
_DELTA == 10

\* dla = _ea - (s * sin(_ea)) - m
KeplerDla(s, m, ea) == Fl(Fl(ea - MulFx(s, Sin(ea))) - m)

\* 1 - (s * cos(_ea))
KeplerDen(s, ea) == Fl(S - MulFx(s, Cos(ea)))

\* the argument of the recursive call: _ea - dla / (1 - (s * cos(_ea)))
KeplerNext(s, m, ea) == Fl(ea - DivFx(KeplerDla(s, m, ea), KeplerDen(s, ea)))

\* The test that ends the recursion: fabs(dla) < _DELTA
KeplerDone(s, m, ea) == Abs(KeplerDla(s, m, ea)) < _DELTA

\* The absent argument of a call (None); a given argument x is <<x>>.
None == <<>>

\* eccentric_anomaly(s, m, _ea) as the function the reduction calls.  It is
\* only applied where the recursion ends.
RECURSIVE eccentric_anomaly(_, _, _)
eccentric_anomaly(s, m, _ea) ==
    LET ea == IF _ea = None THEN m ELSE _ea[1]
    IN  IF KeplerDone(s, m, ea) THEN ea
        ELSE eccentric_anomaly(s, m, <<KeplerNext(s, m, ea)>>)

(***************************************************************************)
(* astropc/mathutils.py                                                    *)
(***************************************************************************)

\* The sum a + r of to_range, as the program's arithmetic rounds it.
RangeSum(a, r) == Fl(a + r)

\* to_range(x, r):  a = fmod(x, r);  return a + r if a < 0 else a
to_range(x, r) ==
    LET a == fmod(x, r)
    IN  IF a < 0 THEN RangeSum(a, r) ELSE a

\* reduce_deg(x) = to_range(x, 360), x in DEG units
reduce_deg(x) == to_range(x, 360 * DEG)

\* reduce_rad(x) = to_range(x, PI2)
reduce_rad(x) == to_range(x, PI2)

\* polynome(t, *coeffs): reduce(lambda a, b: t * a + b, reversed(coeffs)),
\* the value folded over the coefficients from place i on.
RECURSIVE PolyFold(_, _, _)
PolyFold(t, coeffs, i) ==
    IF i = Len(coeffs) THEN Fl(coeffs[i])
    ELSE Fl(MulFx(PolyFold(t, coeffs, i + 1), t) + coeffs[i])

polynome(t, coeffs) == PolyFold(t, coeffs, 1)

\* frac(b * t) for b = bi + bf (bi whole, bf an S-scaled fraction): modf
\* keeps the sign of the product.  The whole turns of bi * t are dropped limb
\* by limb, a double holds the product to sixteen digits.
FracOfProduct(bi, bf, t) ==
    LET at == Abs(t)
        th == at \div 10000
        tl == at % 10000
        fi == (((bi * th) % 10000) * 10000 + bi * tl) % S
        ff == MulU(bf, at) % S
    IN  Sgn(t) * ((fi + ff) % S)

\* frac360(x) = frac(x) * 360.0, in DEG units
frac360(f) == MulFx(360 * DEG, f)

(***************************************************************************)
(* astropc/planets/planet.py: the registry of Planet.for_id                *)
(***************************************************************************)

PlanetIds == {"Mercury", "Venus", "Mars", "Jupiter", "Saturn", "Uranus",
              "Neptune", "Pluto"}

\* The match statement of Planet.for_id: angles of the series in DEG units
\* per power of t, eccentricities in S units, the semi-axis in AU units, the
\* second mean-longitude term as whole turns bi and the fraction bf.
PlanetDef(id) ==
  CASE
       id = "Mercury" ->
         [id |-> id, is_inner |-> TRUE, pert_calculator |-> "PertMercury",
          orbit |-> [ml |-> [a |-> 178179078, bi |-> 415, bf |-> 20575190, c |-> 301, d |-> 0],
                     ph |-> <<75899697, 1555489, 295>>,
                     ec |-> <<20561421, 2046, -3>>,
                     inc |-> <<7002881, 1861, -18>>,
                     nd |-> <<47145944, 1185208, 174>>,
                     sa |-> 3870986]]
    []
       id = "Venus" ->
         [id |-> id, is_inner |-> TRUE, pert_calculator |-> "PertVenus",
          orbit |-> [ml |-> [a |-> 342767053, bi |-> 162, bf |-> 55336640, c |-> 310, d |-> 0],
                     ph |-> <<130163833, 1408036, -976>>,
                     ec |-> <<682069, -4774, 9>>,
                     inc |-> <<3393631, 1006, -1>>,
                     nd |-> <<75779647, 899850, 410>>,
                     sa |-> 7233316]]
    []
       id = "Mars" ->
         [id |-> id, is_inner |-> FALSE, pert_calculator |-> "PertMars",
          orbit |-> [ml |-> [a |-> 293737334, bi |-> 53, bf |-> 17137642, c |-> 311, d |-> 0],
                     ph |-> <<334218203, 1840758, 130, -1>>,
                     ec |-> <<9331290, 9206, -8>>,
                     inc |-> <<1850333, -675, 13>>,
                     nd |-> <<48786442, 770992, -1, -5>>,
                     sa |-> 15236883]]
    []
       id = "Jupiter" ->
         [id |-> id, is_inner |-> FALSE, pert_calculator |-> "PertJupiter",
          orbit |-> [ml |-> [a |-> 238049257, bi |-> 8, bf |-> 43417218, c |-> 335, d |-> -2],
                     ph |-> <<12720972, 1609962, 1056, -3>>,
                     ec |-> <<4833475, 16418, -47, 0>>,
                     inc |-> <<1308736, -5696, 4>>,
                     nd |-> <<99443414, 1010530, 352, -9>>,
                     sa |-> 52025610]]
    []
       id = "Saturn" ->
         [id |-> id, is_inner |-> FALSE, pert_calculator |-> "PertSaturn",
          orbit |-> [ml |-> [a |-> 266564377, bi |-> 3, bf |-> 39863857, c |-> 324, d |-> -6],
                     ph |-> <<91098214, 1958416, 826, 5>>,
                     ec |-> <<5589232, -34550, -73, 0>>,
                     inc |-> <<2492519, -3919, -15, 0>>,
                     nd |-> <<112790414, 873195, -152, -5>>,
                     sa |-> 95547470]]
    []
       id = "Uranus" ->
         [id |-> id, is_inner |-> FALSE, pert_calculator |-> "PertUranus",
          orbit |-> [ml |-> [a |-> 244197470, bi |-> 1, bf |-> 19406541, c |-> 316, d |-> -1],
                     ph |-> <<171548692, 1484433, 237, -1>>,
                     ec |-> <<4634440, -2658, 8>>,
                     inc |-> <<772464, 625, 40>>,
                     nd |-> <<73477111, 498668, 1312>>,
                     sa |-> 192181400]]
    []
       id = "Neptune" ->
         [id |-> id, is_inner |-> FALSE, pert_calculator |-> "PertNeptune",
          orbit |-> [ml |-> [a |-> 84457994, bi |-> 0, bf |-> 61079421, c |-> 320, d |-> -1],
                     ph |-> <<46727364, 1424574, 391, -1>>,
                     ec |-> <<899704, 633, 0>>,
                     inc |-> <<1779242, -9544, -9>>,
                     nd |-> <<130681389, 1098935, 250, -5>>,
                     sa |-> 301095700]]
    []
       id = "Pluto" ->
         [id |-> id, is_inner |-> FALSE, pert_calculator |-> "PertPluto",
          orbit |-> [ml |-> [a |-> 95311354, bi |-> 0, bf |-> 39803322, c |-> 0, d |-> 0],
                     ph |-> <<224017000>>,
                     ec |-> <<25515000>>,
                     inc |-> <<17132900>>,
                     nd |-> <<110191000>>,
                     sa |-> 398151000]]

(***************************************************************************)
(* astropc/planets/orbit.py                                                *)
(***************************************************************************)

\* Terms.assemble(t) = reduce_deg(polynome(t, *self._data))
Terms_assemble(terms, t) == reduce_deg(polynome(t, terms))

\* Terms.assemble for the eccentricity series, in S units.  reduce_deg
\* returns a value of [0, 360) as it is; 360 itself is beyond the numbers of
\* the model, and so is the value of a negative polynomial.
Ecc_assemble(terms, t) == polynome(t, terms)

\* MLTerms.assemble(t):
\*   b = frac360(self._data[1] * t)
\*   reduce_deg(self._data[0] + b + (self._data[3] * t + self._data[2]) * t * t)
MLTerms_assemble(ml, t) ==
    LET b == frac360(FracOfProduct(ml.bi, ml.bf, t))
        hi == MulFx(MulFx(Fl(MulFx(ml.d, t) + ml.c), t), t)
    IN  reduce_deg(Fl(Fl(Fl(ml.a) + b) + hi))

\* OElements.__init__: self._dm = ml[1] * 9.856263e-3 + (ml[2] + ml[3]) / 36525
OElements_daily_motion(orbit) ==
    Fl(MulFx(orbit.ml.bi * DEG + (orbit.ml.bf \div 100), 985626)
       + ((orbit.ml.c + orbit.ml.d) \div 36525))

\* OElements.assemble_mean_anomaly(t)
assemble_mean_anomaly(orbit, t) ==
    reduce_deg(Fl(MLTerms_assemble(orbit.ml, t) - Terms_assemble(orbit.ph, t)))

\* OElements.instantiate(t): the fields of the OrbitInstance
instantiate(orbit, t) ==
    [perihelion |-> radians(Terms_assemble(orbit.ph, t)),
     eccentricity |-> Ecc_assemble(orbit.ec, t),
     mean_node |-> radians(Terms_assemble(orbit.nd, t)),
     inclination |-> radians(Terms_assemble(orbit.inc, t)),
     major_semiaxis |-> orbit.sa,
     mean_anomaly |-> radians(assemble_mean_anomaly(orbit, t)),
     daily_motion |-> radians(OElements_daily_motion(orbit))]

(***************************************************************************)
(* astropc/kepler.py: true_anomaly                                         *)
(***************************************************************************)

\* true_anomaly(s, ea) = 2 * atan(sqrt((1 + s) / (1 - s)) * tan(ea / 2)):
\* the tangent is the quotient of the sine and the cosine of ea / 2.
true_anomaly(s, ea) ==
    LET h == ea \div 2
        r == Sqrt(DivFx(S + s, S - s))
    IN  2 * AtanQ(MulFx(r, Sin(h)), Cos(h))

(***************************************************************************)
(* astropc/planets/sphera.py: the values read from a context.  A context   *)
(* is the record [t, manom_sun, sun_geo |-> [phi, rho], obliquity,         *)
(* nutation |-> [dpsi, deps], apparent, aux_sun] of the attributes         *)
(* CelestialSphera.__init__ sets.                                          *)
(***************************************************************************)

\* __init__, lines 61 to 68: the tuple aux_sun, in units of 1e-6 rad, of
\* the three reduced angles a1, a2, a3.
AuxSunOf(t, a1, a2, a3) ==
    <<Fl(t \div 500 + 100000), a1, a2, a3, Fl(5 * a2 - 2 * a1),
      Fl(Fl(2 * a1 - 6 * a2) + 3 * a3)>>

AuxSun(t) ==
    AuxSunOf(t, to_range(Fl(4144730 + MulFx(52969100, t)), 6283185),
             to_range(Fl(4641118 + MulFx(21329910, t)), 6283185),
             to_range(Fl(4250177 + MulFx(7478172, t)), 6283185))

\* CelestialSphera(t, manom_sun, sun_geo, obliquity, nut, apparent): the
\* attributes of the new context, args being the first five arguments.
CelestialSphera(args, apparent) ==
    [t |-> args.t, manom_sun |-> args.manom_sun, sun_geo |-> args.sun_geo,
     obliquity |-> args.obliquity, nutation |-> args.nutation,
     apparent |-> apparent, aux_sun |-> AuxSun(args.t)]

\* get_orbit_instance, get_mean_anomaly, get_data and geocentric_position
\* read the attributes of the context and bind what they compute to local
\* names: the context a call leaves behind.
ContextCorrected(ctx) == [ctx EXCEPT !.sun_geo.phi = @ + ctx.nutation.dpsi]
ContextAfter(ctx) == ctx

\* get_mean_anomaly(id, dt), the value:
\*   ma = self.get_orbit_instance(id).mean_anomaly
\*   if dt is not None: ma -= radians(dt * Planet.for_id(id).orbit.daily_motion)
mean_anomaly_value(t, id, dt) ==
    LET ma == instantiate(PlanetDef(id).orbit, t).mean_anomaly
    IN  IF dt = None THEN ma
        ELSE Fl(ma - radians(MulFx(dt[1],
                                   OElements_daily_motion(PlanetDef(id).orbit))))

(***************************************************************************)
(* astropc/planets/pert.py                                                 *)
(***************************************************************************)

\* k * x for an angle x, carried modulo PI2: the cosine is all that reads it.
RECURSIVE AngMul(_, _)
AngMul(k, x) ==
    IF k = 0 THEN 0
    ELSE IF k < 0 THEN (PI2 - AngMul(-k, x)) % PI2
    ELSE ((x % PI2) + AngMul(k - 1, x)) % PI2

\* cos(k1 * x1 + k2 * x2 + c)
CosArg(k1, x1, k2, x2, c) == Cos(AngMul(k1, x1) + AngMul(k2, x2) + c)
SinArg3(k1, x1, k2, x2, k3, x3) ==
    Sin((AngMul(k1, x1) + AngMul(k2, x2) + AngMul(k3, x3)) % PI2)
CosArg3(k1, x1, k2, x2, k3, x3) ==
    Cos((AngMul(k1, x1) + AngMul(k2, x2) + AngMul(k3, x3)) % PI2)

\* 1e-9 AU, the unit of the coefficients of dr, to AU units
NanoAU(x) == (x + 50) \div 100

\* PertRecord()
PertRecord == [dl |-> 0, dr |-> 0, dml |-> 0, ds |-> 0, dm |-> 0, da |-> 0,
               dhl |-> 0]

\* PertCalculator.id as the constructors of the subclasses set it:
\* super().__init__(PlanetId.MERCURY) and so on.
PertCalculator_id(calc) ==
    CASE calc = "PertMercury" -> "Mercury"
      [] calc = "PertVenus" -> "Venus"
      [] calc = "PertMars" -> "Mars"
      [] calc = "PertJupiter" -> "Jupiter"
      [] calc = "PertSaturn" -> "Saturn"
      [] calc = "PertUranus" -> "Uranus"
      [] calc = "PertNeptune" -> "Neptune"
      [] calc = "PertPluto" -> "Pluto"

\* The mean anomalies a calculator asks the context for, in the order of
\* its get_mean_anomaly calls.
pert_requests(calc) ==
    CASE calc = "PertMercury" -> <<"Mercury", "Venus", "Jupiter">>
      [] calc = "PertVenus" -> <<"Venus", "Jupiter">>
      [] calc = "PertMars" -> <<"Venus", "Jupiter", "Mars">>
      [] calc \in {"PertCalculator", "PertJupiter", "PertSaturn", "PertUranus",
                   "PertNeptune", "PertPluto"} -> <<>>

\* The arguments (id, dt) of the get_mean_anomaly calls of get_data(ctx, dt):
\* ctx.get_mean_anomaly(PlanetId.VENUS, dt) and so on
pert_asks_undelayed(calc, dt) ==
    [i \in DOMAIN pert_requests(calc) |->
        [id |-> pert_requests(calc)[i], dt |-> <<0>>]]
pert_asks(calc, dt) ==
    [i \in DOMAIN pert_requests(calc) |->
        [id |-> pert_requests(calc)[i], dt |-> <<dt>>]]

\* A PertRecord of the sums dl (arc-degrees), dr (1e-9 AU) and dm
PertRecordOf(dl, dr, dm) ==
    [PertRecord EXCEPT !.dl = dl, !.dr = NanoAU(dr), !.dml = dm, !.dm = dm]

\* The sums of PertMercury.get_data over the mean anomalies of Mercury,
\* Venus and Jupiter
PertMercury_dl(me, ve, ju) ==
    MulFx(2040, CosArg(5, ve, -2, me, 21328000))
    + MulFx(1030, CosArg(2, ve, -1, me, -280460000))
    + MulFx(910, CosArg(2, ju, -1, me, -64582000))
    + MulFx(780, CosArg(5, ve, -3, me, 17692000))

PertMercury_dr(me, ve, ju) ==
    MulFx(7525, CosArg(2, ju, -1, me, 92525100))
    + MulFx(6802, CosArg(5, ve, -3, me, -453642000))
    + MulFx(5457, CosArg(2, ve, -2, me, -124246000))
    + MulFx(3569, CosArg(5, ve, -1, me, -135699000))

PertMercurySums(me, ve, ju) ==
    [PertRecord EXCEPT !.dl = PertMercury_dl(me, ve, ju),
                       !.dr = NanoAU(PertMercury_dr(me, ve, ju))]

\* The sums of PertVenus.get_data over the mean anomalies of the Sun,
\* Venus and Jupiter
PertVenus_dl(ms, ve, ju) ==
    MulFx(3130, CosArg(2, ms, -2, ve, -258700000))
    + MulFx(1980, CosArg(3, ms, -3, ve, 4476800))
    + MulFx(1360, CosArg(1, ms, -1, ve, -207880000))
    + MulFx(960, CosArg(3, ms, -2, ve, -237210000))
    + MulFx(820, CosArg(1, ju, -1, ve, -363180000))

PertVenus_dr(ms, ve, ju) ==
    MulFx(22501, CosArg(2, ms, -2, ve, -101592000))
    + MulFx(19045, CosArg(3, ms, -3, ve, 161577000))
    + MulFx(6887, CosArg(1, ju, -1, ve, -206106000))
    + MulFx(5172, CosArg(1, ms, -1, ve, -50806500))
    + MulFx(3620, CosArg(5, ms, -4, ve, -181877000))
    + MulFx(3283, CosArg(4, ms, -4, ve, 110851000))
    + MulFx(3074, CosArg(2, ju, -2, ve, -96284600))

PertVenus_dm(t) == radians(MulFx(770, Sin(Fl(414060000 + MulFx(t, 262270000)))))

PertVenusSums(t, ms, ve, ju) ==
    PertRecordOf(PertVenus_dl(ms, ve, ju), PertVenus_dr(ms, ve, ju),
                 PertVenus_dm(t))

\* The sums of PertMars.get_data over the mean anomalies of Venus, Jupiter,
\* the Sun and Mars
PertMars_dl(ve, ju, ms, ma) ==
    MulFx(7050, CosArg(1, ju, -1, ma, -85448000))
    + MulFx(6070, CosArg(2, ju, -1, ma, -328730000))
    + MulFx(4450, CosArg(2, ju, -2, ma, -334920000))
    + MulFx(3880, CosArg(1, ms, -2, ma, 35771000))
    + MulFx(2380, CosArg(1, ms, -1, ma, 61256000))
    + MulFx(2040, CosArg(2, ms, -3, ma, 276880000))
    + MulFx(1770, CosArg(3, ma, -1, ve, -100530000))
    + MulFx(1360, CosArg(2, ms, -4, ma, 268940000))
    + MulFx(1040, CosArg(1, ju, 0, ju, 30749000))

PertMars_dr(ve, ju, ms, ma) ==
    MulFx(53227, CosArg(1, ju, -1, ma, 71786400))
    + MulFx(50989, CosArg(2, ju, -2, ma, -177997000))
    + MulFx(38278, CosArg(2, ju, -1, ma, -171617000))
    + MulFx(15996, CosArg(1, ms, -1, ma, -96961800))
    + MulFx(14764, CosArg(2, ms, -3, ma, 119768000))
    + MulFx(8966, CosArg(1, ju, -2, ma, 76122500))
    + MulFx(7914, CosArg(3, ju, -2, ma, -243887000))
    + MulFx(7004, CosArg(2, ju, -3, ma, -179573000))
    + MulFx(6620, CosArg(1, ms, -2, ma, 197575000))
    + MulFx(4930, CosArg(3, ju, -3, ma, -133069000))
    + MulFx(4693, CosArg(3, ms, -5, ma, 332665000))
    + MulFx(4571, CosArg(2, ms, -4, ma, 427086000))
    + MulFx(4409, CosArg(3, ju, -1, ma, -202158000))

PertMars_dm(ju, ms, ma) ==
    radians(-(MulFx(11330, SinArg3(3, ju, -8, ma, 4, ms))
              + MulFx(9330, CosArg3(3, ju, -8, ma, 4, ms))))

PertMarsSums(ve, ju, ms, ma) ==
    PertRecordOf(PertMars_dl(ve, ju, ms, ma), PertMars_dr(ve, ju, ms, ma),
                 PertMars_dm(ju, ms, ma))

\* The sine and the cosine of an angle given in units of 1e-6 rad
SinMicro(a) == Sin(100 * (a % 6283185))
CosMicro(a) == Cos(100 * (a % 6283185))

\* PertJupiter.get_data, lines 187 to 315: the locals x1 and the sines and
\* cosines of the angles, x being ctx.aux_sun
PertJupiterLocals(x) ==
    [x1 |-> 100 * x[1],
     sx3 |-> SinMicro(x[3]),
     cx3 |-> CosMicro(x[3]),
     s2x3 |-> SinMicro(2 * (x[3])),
     c2x3 |-> CosMicro(2 * (x[3])),
     sx5 |-> SinMicro(x[5]),
     cx5 |-> CosMicro(x[5]),
     s2x5 |-> SinMicro(2 * (x[5])),
     sx6 |-> SinMicro(x[6]),
     sx7 |-> SinMicro((x[3] - x[2])),
     cx7 |-> CosMicro((x[3] - x[2])),
     s2x7 |-> SinMicro(2 * ((x[3] - x[2]))),
     c2x7 |-> CosMicro(2 * ((x[3] - x[2]))),
     s3x7 |-> SinMicro(3 * ((x[3] - x[2]))),
     c3x7 |-> CosMicro(3 * ((x[3] - x[2]))),
     s4x7 |-> SinMicro(4 * ((x[3] - x[2]))),
     c4x7 |-> CosMicro(4 * ((x[3] - x[2]))),
     c5x7 |-> CosMicro(5 * ((x[3] - x[2])))]

PertJupiter_dml_1(v) ==
    MulFx((331364 - MulFx((10281 + MulFx(4692, v.x1)), v.x1)), v.sx5)
    + MulFx((3228 - MulFx((64436 - MulFx(2075, v.x1)), v.x1)), v.cx5)
    - MulFx((3083 + MulFx((275 - MulFx(489, v.x1)), v.x1)), v.s2x5)
    + MulFx(2472, v.sx6)
    + MulFx(13619, v.sx7)
    + MulFx(18472, v.s2x7)

PertJupiter_dml_2(v) ==
    MulFx(6717, v.s3x7)
    + MulFx(2775, v.s4x7)
    + MulFx(MulFx(6417, v.s2x7), v.sx3)
    + MulFx(MulFx((7275 - MulFx(1253, v.x1)), v.sx7), v.sx3)
    + MulFx(MulFx(2439, v.s3x7), v.sx3)
    - MulFx(MulFx((35681 + MulFx(1208, v.x1)), v.sx7), v.cx3)

PertJupiter_dml_3(v) ==
    -MulFx(MulFx(3767, v.c2x7), v.sx3)
    - MulFx(MulFx((33839 + MulFx(1125, v.x1)), v.cx7), v.sx3)
    - MulFx(MulFx(4261, v.s2x7), v.cx3)
    + MulFx(MulFx((MulFx(1161, v.x1) - 6333), v.cx7), v.cx3)
    + MulFx(2178, v.cx3)
    - MulFx(MulFx(6675, v.c2x7), v.cx3)

PertJupiter_dml_4(v) ==
    -MulFx(MulFx(2664, v.c3x7), v.cx3)
    - MulFx(MulFx(2572, v.sx7), v.s2x3)
    - MulFx(MulFx(3567, v.s2x7), v.s2x3)
    + MulFx(MulFx(2094, v.cx7), v.c2x3)
    + MulFx(MulFx(3342, v.c2x7), v.c2x3)

\* PertJupiter.get_data, lines 217 to 241: dml
PertJupiter_dml(v) ==
    PertJupiter_dml_1(v)
    + PertJupiter_dml_2(v)
    + PertJupiter_dml_3(v)
    + PertJupiter_dml_4(v)

PertJupiter_ds_1(v) ==
    MulFx((36060 + MulFx((1300 - MulFx(430, v.x1)), v.x1)), v.sx5)
    + MulFx((12890 - MulFx(5800, v.x1)), v.cx5)
    - MulFx(MulFx(67640, v.sx7), v.sx3)
    - MulFx(MulFx(11100, v.s2x7), v.sx3)
    - MulFx(MulFx(2240, v.s3x7), v.sx3)
    - MulFx(2040, v.sx3)

PertJupiter_ds_2(v) ==
    MulFx(MulFx((12840 + MulFx(1160, v.x1)), v.cx7), v.sx3)
    + MulFx(MulFx(1880, v.c2x7), v.sx3)
    + MulFx(MulFx((14600 + MulFx(1300, v.x1)), v.sx7), v.cx3)
    + MulFx(MulFx(2240, v.s2x7), v.cx3)
    - MulFx(8170, v.cx3)
    + MulFx(MulFx(60740, v.cx3), v.cx7)

PertJupiter_ds_3(v) ==
    MulFx(MulFx(9920, v.c2x7), v.cx3)
    + MulFx(MulFx(5080, v.c3x7), v.cx3)
    + MulFx(MulFx(2300, v.c4x7), v.cx3)
    + MulFx(MulFx(1080, v.c5x7), v.cx3)
    - MulFx(MulFx((9560 + MulFx(730, v.x1)), v.sx7), v.s2x3)
    + MulFx(MulFx(4480, v.s2x7), v.s2x3)

PertJupiter_ds_4(v) ==
    MulFx(MulFx(1370, v.s3x7), v.s2x3)
    + MulFx(MulFx((MulFx(1080, v.x1) - 9970), v.cx7), v.s2x3)
    + MulFx(MulFx(4800, v.c2x7), v.s2x3)
    + MulFx(MulFx(1480, v.c3x7), v.s2x3)
    + MulFx(MulFx((MulFx(990, v.x1) - 9560), v.sx7), v.c2x3)
    + MulFx(MulFx(4900, v.s2x7), v.c2x3)

PertJupiter_ds_5(v) ==
    MulFx(MulFx(1580, v.s3x7), v.c2x3)
    + MulFx(1790, v.c2x3)
    + MulFx(MulFx((10240 + MulFx(750, v.x1)), v.cx7), v.c2x3)
    - MulFx(MulFx(4370, v.c2x7), v.c2x3)
    - MulFx(MulFx(1320, v.c3x7), v.c2x3)

\* PertJupiter.get_data, lines 244 to 274: ds
PertJupiter_ds(v) ==
    PertJupiter_ds_1(v)
    + PertJupiter_ds_2(v)
    + PertJupiter_ds_3(v)
    + PertJupiter_ds_4(v)
    + PertJupiter_ds_5(v)

PertJupiter_dp_1(v) ==
    MulFx((7192 - MulFx(3147, v.x1)), v.sx5)
    - MulFx(4344, v.sx3)
    + MulFx((MulFx(v.x1, (MulFx(197, v.x1) - 675)) - 20428), v.cx5)
    + MulFx(MulFx(34036, v.cx7), v.sx3)
    + MulFx(MulFx((7269 + MulFx(672, v.x1)), v.sx7), v.sx3)
    + MulFx(MulFx(5614, v.c2x7), v.sx3)

PertJupiter_dp_2(v) ==
    MulFx(MulFx(2964, v.c3x7), v.sx3)
    + MulFx(MulFx(37761, v.sx7), v.cx3)
    + MulFx(MulFx(6158, v.s2x7), v.cx3)
    - MulFx(MulFx(6603, v.cx7), v.cx3)
    - MulFx(MulFx(5356, v.sx7), v.s2x3)
    + MulFx(MulFx(2722, v.s2x7), v.s2x3)

PertJupiter_dp_3(v) ==
    MulFx(MulFx(4483, v.cx7), v.s2x3)
    - MulFx(MulFx(2642, v.c2x7), v.s2x3)
    + MulFx(MulFx(4403, v.sx7), v.c2x3)
    - MulFx(MulFx(2536, v.s2x7), v.c2x3)
    + MulFx(MulFx(5547, v.cx7), v.c2x3)
    - MulFx(MulFx(2689, v.c2x7), v.c2x3)

\* PertJupiter.get_data, lines 277 to 296: dp
PertJupiter_dp(v) ==
    PertJupiter_dp_1(v)
    + PertJupiter_dp_2(v)
    + PertJupiter_dp_3(v)

PertJupiter_da_1(v) ==
    MulFx(2050, v.cx7)
    - MulFx(2630, v.cx5)
    + MulFx(6930, v.c2x7)
    + MulFx(3120, v.c3x7)
    + MulFx(1470, v.c4x7)
    + MulFx(MulFx(2990, v.sx7), v.sx3)

PertJupiter_da_2(v) ==
    MulFx(MulFx(1810, v.c2x7), v.sx3)
    + MulFx(MulFx(2040, v.s2x7), v.cx3)
    + MulFx(MulFx(1110, v.s3x7), v.cx3)
    - MulFx(MulFx(3370, v.cx7), v.cx3)
    - MulFx(MulFx(1110, v.c2x7), v.cx3)

\* PertJupiter.get_data, lines 300 to 312: da
PertJupiter_da(v) ==
    PertJupiter_da_1(v)
    + PertJupiter_da_2(v)

\* PertJupiter.get_data: the PertRecord of the sums, s being the eccentricity
PertJupiterSums(s, v) ==
    [dl |-> 0,
     dr |-> 0,
     dml |-> radians(PertJupiter_dml(v)),
     ds |-> PertJupiter_ds(v),
     dm |-> Fl(radians(PertJupiter_dml(v)) - DivFx(radians(PertJupiter_dp(v)), s)),
     da |-> PertJupiter_da(v),
     dhl |-> 0]

\* PertSaturn.get_data, lines 324 to 520: the locals x1 and the sines and
\* cosines of the angles, x being ctx.aux_sun
PertSaturnLocals(x) ==
    [x1 |-> 100 * x[1],
     sx3 |-> SinMicro(x[3]),
     cx3 |-> CosMicro(x[3]),
     s2x3 |-> SinMicro(2 * (x[3])),
     c2x3 |-> CosMicro(2 * (x[3])),
     sx5 |-> SinMicro(x[5]),
     cx5 |-> CosMicro(x[5]),
     s2x5 |-> SinMicro(2 * (x[5])),
     sx6 |-> SinMicro(x[6]),
     sx7 |-> SinMicro((x[3] - x[2])),
     cx7 |-> CosMicro((x[3] - x[2])),
     s2x7 |-> SinMicro(2 * ((x[3] - x[2]))),
     c2x7 |-> CosMicro(2 * ((x[3] - x[2]))),
     s3x7 |-> SinMicro(3 * ((x[3] - x[2]))),
     c3x7 |-> CosMicro(3 * ((x[3] - x[2]))),
     s4x7 |-> SinMicro(4 * ((x[3] - x[2]))),
     c4x7 |-> CosMicro(4 * ((x[3] - x[2]))),
     c5x7 |-> CosMicro(5 * ((x[3] - x[2]))),
     s3x3 |-> SinMicro(3 * (x[3])),
     c3x3 |-> CosMicro(3 * (x[3])),
     s4x3 |-> SinMicro(4 * (x[3])),
     c4x3 |-> CosMicro(4 * (x[3])),
     c2x5 |-> CosMicro(2 * (x[5])),
     s5x7 |-> SinMicro(5 * ((x[3] - x[2]))),
     s2x8 |-> SinMicro(2 * ((x[4] - x[3]))),
     c2x8 |-> CosMicro(2 * ((x[4] - x[3]))),
     s3x8 |-> SinMicro(3 * ((x[4] - x[3]))),
     c3x8 |-> CosMicro(3 * ((x[4] - x[3])))]

PertSaturn_dml_1(v) ==
    MulFx(7581, v.s2x5)
    - MulFx(7986, v.sx6)
    - MulFx(148811, v.sx7)
    - MulFx(40786, v.s2x7)
    - MulFx((814181 - MulFx((18150 - MulFx(16714, v.x1)), v.x1)), v.sx5)
    - MulFx((10497 - MulFx((160906 - MulFx(4100, v.x1)), v.x1)), v.cx5)

PertSaturn_dml_2(v) ==
    -MulFx(15208, v.s3x7)
    - MulFx(6339, v.s4x7)
    - MulFx(6244, v.sx3)
    - MulFx(MulFx(16500, v.s2x7), v.sx3)
    + MulFx(MulFx((8931 + MulFx(2728, v.x1)), v.sx7), v.sx3)
    - MulFx(MulFx(5775, v.s3x7), v.sx3)

PertSaturn_dml_3(v) ==
    MulFx(MulFx((81344 + MulFx(3206, v.x1)), v.cx7), v.sx3)
    + MulFx(MulFx(15019, v.c2x7), v.sx3)
    + MulFx(MulFx((85581 + MulFx(2494, v.x1)), v.sx7), v.cx3)
    + MulFx(MulFx(14394, v.c2x7), v.cx3)
    + MulFx(MulFx((25328 - MulFx(3117, v.x1)), v.cx7), v.cx3)
    + MulFx(MulFx(6319, v.c3x7), v.cx3)

PertSaturn_dml_4(v) ==
    MulFx(MulFx(6369, v.sx7), v.s2x3)
    + MulFx(MulFx(9156, v.s2x7), v.s2x3)
    + MulFx(MulFx(7525, v.s3x8), v.s2x3)
    - MulFx(MulFx(5236, v.cx7), v.c2x3)
    - MulFx(MulFx(7736, v.c2x7), v.c2x3)
    - MulFx(MulFx(7528, v.c3x8), v.c2x3)

\* PertSaturn.get_data, lines 367 to 392: dml
PertSaturn_dml(v) ==
    PertSaturn_dml_1(v)
    + PertSaturn_dml_2(v)
    + PertSaturn_dml_3(v)
    + PertSaturn_dml_4(v)

PertSaturn_ds_1(v) ==
    MulFx((-79270 + MulFx((25480 + MulFx(910, v.x1)), v.x1)), v.sx5)
    + MulFx((133810 + MulFx((12260 - MulFx(2530, v.x1)), v.x1)), v.cx5)
    + MulFx((2480 - MulFx(1210, v.x1)), v.s2x5)
    - MulFx((3050 + MulFx(910, v.x1)), v.c2x5)
    + MulFx(4120, v.s2x7)
    + MulFx(124150, v.sx3)

PertSaturn_ds_2(v) ==
    MulFx(MulFx((3900 - MulFx(6170, v.x1)), v.sx7), v.sx3)
    + MulFx(MulFx((1650 - MulFx(2040, v.x1)), v.s2x7), v.sx3)
    + MulFx(MulFx(265990, v.cx7), v.sx3)
    - MulFx(MulFx(46870, v.c2x7), v.sx3)
    - MulFx(MulFx(18700, v.c3x7), v.sx3)
    - MulFx(MulFx(8210, v.c4x7), v.sx3)

PertSaturn_ds_3(v) ==
    -MulFx(MulFx(3770, v.c5x7), v.sx3)
    + MulFx(MulFx(4970, v.c2x8), v.sx3)
    + MulFx((1630 - MulFx(6110, v.x1)), v.cx3)
    - MulFx(MulFx(126960, v.sx7), v.cx3)
    - MulFx(MulFx(42000, v.s2x7), v.cx3)
    - MulFx(MulFx(15030, v.s3x7), v.cx3)

PertSaturn_ds_4(v) ==
    -MulFx(MulFx(6190, v.s4x7), v.cx3)
    - MulFx(MulFx(2680, v.s5x7), v.cx3)
    - MulFx(MulFx((2820 + MulFx(13060, v.x1)), v.cx7), v.cx3)
    + MulFx(MulFx((-860 + MulFx(2300, v.x1)), v.c2x7), v.cx3)
    + MulFx(MulFx(4610, v.s2x8), v.cx3)
    - MulFx(3500, v.s2x3)

PertSaturn_ds_5(v) ==
    MulFx(MulFx((22110 - MulFx(2860, v.x1)), v.sx7), v.s2x3)
    - MulFx(MulFx(22080, v.s2x7), v.s2x3)
    - MulFx(MulFx(5680, v.s3x7), v.s2x3)
    - MulFx(MulFx(3460, v.s4x7), v.s2x3)
    - MulFx(MulFx((27800 + MulFx(2220, v.x1)), v.cx7), v.s2x3)
    + MulFx(MulFx((20220 + MulFx(2630, v.x1)), v.c2x7), v.s2x3)

PertSaturn_ds_6(v) ==
    MulFx(MulFx(2480, v.c3x7), v.s2x3)
    + MulFx(MulFx(2420, v.s3x8), v.s2x3)
    + MulFx(MulFx(4670, v.c3x8), v.s2x3)
    - MulFx(4900, v.c2x3)
    - MulFx(MulFx((28420 + MulFx(2790, v.x1)), v.sx7), v.c2x3)
    + MulFx(MulFx((1280 + MulFx(2260, v.x1)), v.s2x7), v.c2x3)

PertSaturn_ds_7(v) ==
    MulFx(MulFx(2240, v.s3x7), v.c2x3)
    + MulFx(MulFx((-15940 + MulFx(2820, v.x1)), v.cx7), v.c2x3)
    + MulFx(MulFx((21620 - MulFx(2070, v.x1)), v.c2x7), v.c2x3)
    + MulFx(MulFx(5610, v.c3x7), v.c2x3)
    + MulFx(MulFx(3430, v.c4x7), v.c2x3)
    + MulFx(MulFx(4690, v.s3x8), v.c2x3)

PertSaturn_ds_8(v) ==
    -MulFx(MulFx(2420, v.c3x8), v.c2x3)
    - MulFx(MulFx(2050, v.sx7), v.s3x3)
    + MulFx(MulFx(2620, v.s3x7), v.s3x3)
    + MulFx(MulFx(2080, v.cx7), v.c3x3)
    - MulFx(MulFx(2710, v.c3x7), v.c3x3)
    - MulFx(MulFx(3820, v.c3x7), v.s4x3)

PertSaturn_ds_9(v) ==
    -MulFx(MulFx(3760, v.s3x7), v.c4x3)

\* PertSaturn.get_data, lines 395 to 445: ds
PertSaturn_ds(v) ==
    PertSaturn_ds_1(v)
    + PertSaturn_ds_2(v)
    + PertSaturn_ds_3(v)
    + PertSaturn_ds_4(v)
    + PertSaturn_ds_5(v)
    + PertSaturn_ds_6(v)
    + PertSaturn_ds_7(v)
    + PertSaturn_ds_8(v)
    + PertSaturn_ds_9(v)

PertSaturn_dp_1(v) ==
    MulFx((77108 + MulFx((7186 - MulFx(1533, v.x1)), v.x1)), v.sx5)
    - MulFx(7075, v.sx7)
    + MulFx((45803 - MulFx((14766 + MulFx(536, v.x1)), v.x1)), v.cx5)
    - MulFx(72586, v.cx3)
    - MulFx(MulFx(75825, v.sx7), v.sx3)
    - MulFx(MulFx(24839, v.s2x7), v.sx3)

PertSaturn_dp_2(v) ==
    -MulFx(MulFx(8631, v.s3x7), v.sx3)
    - MulFx(MulFx(150383, v.cx7), v.cx3)
    + MulFx(MulFx(26897, v.c2x7), v.cx3)
    + MulFx(MulFx(10053, v.c3x7), v.cx3)
    - MulFx(MulFx((13597 + MulFx(1719, v.x1)), v.sx7), v.s2x3)
    + MulFx(MulFx(11981, v.s2x7), v.c2x3)

PertSaturn_dp_3(v) ==
    -MulFx(MulFx((7742 - MulFx(1517, v.x1)), v.cx7), v.s2x3)
    + MulFx(MulFx((13586 - MulFx(1375, v.x1)), v.c2x7), v.c2x3)
    - MulFx(MulFx((13667 - MulFx(1239, v.x1)), v.sx7), v.c2x3)
    + MulFx(MulFx((14861 + MulFx(1136, v.x1)), v.cx7), v.c2x3)
    - MulFx(MulFx((13064 + MulFx(1628, v.x1)), v.c2x7), v.c2x3)

\* PertSaturn.get_data, lines 448 to 466: dp
PertSaturn_dp(v) ==
    PertSaturn_dp_1(v)
    + PertSaturn_dp_2(v)
    + PertSaturn_dp_3(v)

PertSaturn_da_1(v) ==
    MulFx(5720, v.sx5)
    - MulFx(MulFx(15900, v.s2x7), v.cx3)
    + MulFx(29330, v.cx5)
    - MulFx(MulFx(6470, v.s3x7), v.cx3)
    + MulFx(336290, v.cx7)
    - MulFx(MulFx(3440, v.s4x7), v.cx3)

PertSaturn_da_2(v) ==
    -MulFx(30810, v.c2x7)
    + MulFx(MulFx(28850, v.cx7), v.cx3)
    - MulFx(14230, v.c3x7)
    + MulFx(MulFx((21720 + MulFx(1020, v.x1)), v.c2x7), v.cx3)
    - MulFx(6710, v.c4x7)
    + MulFx(MulFx(2960, v.c3x7), v.cx3)

PertSaturn_da_3(v) ==
    -MulFx(3200, v.c5x7)
    - MulFx(MulFx(2670, v.s2x7), v.s2x3)
    + MulFx(10980, v.sx3)
    - MulFx(MulFx(7780, v.cx7), v.s2x3)
    - MulFx(MulFx(28120, v.sx7), v.sx3)
    + MulFx(MulFx(4950, v.c2x7), v.s2x3)

PertSaturn_da_4(v) ==
    MulFx(MulFx(6880, v.s2x7), v.sx3)
    + MulFx(MulFx(2500, v.c3x7), v.s2x3)
    - MulFx(MulFx(3930, v.s3x7), v.sx3)
    - MulFx(MulFx(8560, v.sx7), v.c2x3)
    - MulFx(MulFx(2280, v.s4x7), v.sx3)
    + MulFx(MulFx(4410, v.s2x7), v.c2x3)

PertSaturn_da_5(v) ==
    MulFx(MulFx(21380, v.cx7), v.sx3)
    + MulFx(MulFx(2960, v.c2x7), v.c2x3)
    - MulFx(MulFx(9990, v.c2x7), v.sx3)
    + MulFx(MulFx(2110, v.c3x7), v.c2x3)
    - MulFx(MulFx(6420, v.c3x7), v.sx3)
    - MulFx(MulFx(4270, v.sx7), v.s3x3)

PertSaturn_da_6(v) ==
    -MulFx(MulFx(3250, v.c4x7), v.sx3)
    + MulFx(MulFx(3980, v.s3x7), v.s3x3)
    - MulFx(8900, v.cx3)
    + MulFx(MulFx(3440, v.cx7), v.c3x3)
    + MulFx(MulFx(22060, v.sx7), v.cx3)
    - MulFx(MulFx(4270, v.c3x7), v.c3x3)

\* PertSaturn.get_data, lines 470 to 507: da
PertSaturn_da(v) ==
    PertSaturn_da_1(v)
    + PertSaturn_da_2(v)
    + PertSaturn_da_3(v)
    + PertSaturn_da_4(v)
    + PertSaturn_da_5(v)
    + PertSaturn_da_6(v)

\* PertSaturn.get_data, lines 510 to 517: dhl
PertSaturn_dhl(v) ==
    MulFx(MulFx(747, v.cx7), v.sx3)
    + MulFx(MulFx(1069, v.cx7), v.cx3)
    + MulFx(MulFx(2108, v.s2x7), v.s2x3)
    + MulFx(MulFx(1261, v.c2x7), v.s2x3)
    + MulFx(MulFx(1236, v.s2x7), v.c2x3)
    - MulFx(MulFx(2075, v.c2x7), v.c2x3)

\* PertSaturn.get_data: the PertRecord of the sums, s being the eccentricity
PertSaturnSums(s, v) ==
    [dl |-> 0,
     dr |-> 0,
     dml |-> radians(PertSaturn_dml(v)),
     ds |-> PertSaturn_ds(v),
     dm |-> Fl(radians(PertSaturn_dml(v)) - DivFx(radians(PertSaturn_dp(v)), s)),
     da |-> PertSaturn_da(v),
     dhl |-> radians(PertSaturn_dhl(v))]

\* PertUranus.get_data, lines 529 to 602: the locals x1 and the sines and
\* cosines of the angles, x being ctx.aux_sun and x8 the angle of line 540
PertUranusLocals(x, x8) ==
    [x1 |-> 100 * x[1],
     sx9 |-> SinMicro((2 * (x8) - x[4])),
     cx9 |-> CosMicro((2 * (x8) - x[4])),
     s2x9 |-> SinMicro(2 * ((2 * (x8) - x[4]))),
     c2x9 |-> CosMicro(2 * ((2 * (x8) - x[4]))),
     sx11 |-> SinMicro((x[4] - x[3])),
     cx11 |-> CosMicro((x[4] - x[3])),
     sx4 |-> SinMicro(x[4]),
     cx4 |-> CosMicro(x[4]),
     s2x4 |-> SinMicro(2 * (x[4])),
     c2x4 |-> CosMicro(2 * (x[4])),
     x4 |-> x[4],
     x6 |-> x[6],
     x10 |-> (x[4] - x[2]),
     x11 |-> (x[4] - x[3]),
     x12 |-> (x8 - x[4])]

\* PertUranus.get_data, lines 550 to 556: dml
PertUranus_dml(v) ==
    MulFx((864319 - MulFx(1583, v.x1)), v.sx9)
    + MulFx((82222 - MulFx(6833, v.x1)), v.cx9)
    + MulFx(36017, v.s2x9)
    - MulFx(3019, v.c2x9)
    + MulFx(8122, SinMicro(v.x6))

\* PertUranus.get_data, lines 559 to 559: dp
PertUranus_dp(v) ==
    MulFx(120303, v.sx9)
    + MulFx(6197, v.s2x9)
    + MulFx((19472 - MulFx(947, v.x1)), v.cx9)

\* PertUranus.get_data, lines 561 to 561: ds
PertUranus_ds(v) ==
    MulFx((MulFx(1630, v.x1) - 33490), v.sx9)
    + MulFx(209810, v.cx9)
    + MulFx(13110, v.c2x9)

\* PertUranus.get_data, lines 563 to 563: da
PertUranus_da(v) ==
    MulFx(-38250, v.cx9)

PertUranus_dl_1(v) ==
    MulFx((10122 - MulFx(988, v.x1)), SinMicro((v.x4 + v.x11)))
    + MulFx((-38581 + MulFx((2031 - MulFx(1910, v.x1)), v.x1)), CosMicro((v.x4 + v.x11)))
    + MulFx((34964 - MulFx((1038 - MulFx(868, v.x1)), v.x1)), CosMicro((2 * (v.x4) + v.x11)))
    + MulFx(5594, SinMicro((v.x4 + 3 * (v.x12))))
    - MulFx(14808, SinMicro(v.x10))
    - MulFx(5794, SinMicro(v.x11))

PertUranus_dl_2(v) ==
    MulFx(2347, CosMicro(v.x11))
    + MulFx(9872, SinMicro(v.x12))
    + MulFx(8803, SinMicro(2 * (v.x12)))
    - MulFx(4308, SinMicro(3 * (v.x12)))

\* PertUranus.get_data, lines 564 to 575: dl
PertUranus_dl(v) ==
    PertUranus_dl_1(v)
    + PertUranus_dl_2(v)

\* PertUranus.get_data, lines 583 to 587: dhl
PertUranus_dhl(v) ==
    MulFx(((MulFx(458, v.sx11) - MulFx(642, v.cx11)) - MulFx(517, CosMicro(4 * (v.x12)))), v.sx4)
    - MulFx(((MulFx(347, v.sx11) + MulFx(853, v.cx11)) + MulFx(517, SinMicro(4 * (v.x11)))), v.cx4)
    + MulFx(403, (MulFx(CosMicro(2 * (v.x12)), v.s2x4) + MulFx(SinMicro(2 * (v.x12)), v.c2x4)))

PertUranus_dr_1(v) ==
    -259480
    + MulFx(49850, CosMicro(v.x10))
    - MulFx(12300, v.cx4)
    + MulFx(33540, CosMicro(v.x11))
    + MulFx(9040, CosMicro(2 * (v.x12)))
    + MulFx(8940, (CosMicro(v.x12) - CosMicro(3 * (v.x12))))

PertUranus_dr_2(v) ==
    MulFx(((MulFx(57950, v.cx4) - MulFx(11650, v.sx4)) + MulFx(13880, v.c2x4)), v.sx11)
    + MulFx(((MulFx(13510, v.cx4) + MulFx(57020, v.sx4)) + MulFx(13880, v.s2x4)), CosMicro(v.x11))

\* PertUranus.get_data, lines 590 to 599: dr
PertUranus_dr(v) ==
    PertUranus_dr_1(v)
    + PertUranus_dr_2(v)

\* PertUranus.get_data: the PertRecord of the sums, s being the eccentricity
PertUranusSums(s, v) ==
    [dl |-> PertUranus_dl(v),
     dr |-> PertUranus_dr(v),
     dml |-> radians(PertUranus_dml(v)),
     ds |-> PertUranus_ds(v),
     dm |-> Fl(radians(PertUranus_dml(v)) - DivFx(radians(PertUranus_dp(v)), s)),
     da |-> PertUranus_da(v),
     dhl |-> radians(PertUranus_dhl(v))]

\* PertNeptune.get_data, lines 611 to 659: the locals x1 and the sines and
\* cosines of the angles, x being ctx.aux_sun and x8 the angle of line 621
PertNeptuneLocals(x, x8) ==
    [x1 |-> 100 * x[1],
     sx9 |-> SinMicro((2 * (x8) - x[4])),
     cx9 |-> CosMicro((2 * (x8) - x[4])),
     s2x9 |-> SinMicro(2 * ((2 * (x8) - x[4]))),
     c2x9 |-> CosMicro(2 * ((2 * (x8) - x[4]))),
     s2x12 |-> SinMicro(2 * ((x8 - x[4]))),
     c2x12 |-> CosMicro(2 * ((x8 - x[4]))),
     sx8 |-> SinMicro(x8),
     cx8 |-> CosMicro(x8),
     x10 |-> (x8 - x[2]),
     x11 |-> (x8 - x[3]),
     x12 |-> (x8 - x[4])]

\* PertNeptune.get_data, lines 631 to 635: dml
PertNeptune_dml(v) ==
    MulFx((MulFx(1089, v.x1) - 589833), v.sx9)
    + MulFx((MulFx(4658, v.x1) - 56094), v.cx9)
    - MulFx(24286, v.s2x9)

\* PertNeptune.get_data, lines 637 to 637: dp
PertNeptune_dp(v) ==
    MulFx(24039, v.sx9)
    - MulFx(25303, v.cx9)
    + MulFx(6206, v.s2x9)
    - MulFx(5992, v.c2x9)

\* PertNeptune.get_data, lines 639 to 639: ds
PertNeptune_ds(v) ==
    MulFx(43890, v.sx9)
    + MulFx(11290, v.s2x9)
    + MulFx(42620, v.cx9)
    + MulFx(10890, v.c2x9)

\* PertNeptune.get_data, lines 641 to 641: da
PertNeptune_da(v) ==
    MulFx(81890, v.cx9)
    - MulFx(8170, v.sx9)
    + MulFx(7810, v.c2x9)

\* PertNeptune.get_data, lines 647 to 653: dl
PertNeptune_dl(v) ==
    MulFx(-9556, SinMicro(v.x10))
    - MulFx(5178, SinMicro(v.x11))
    + MulFx(2572, v.s2x12)
    - MulFx(MulFx(2972, v.c2x12), v.sx8)
    - MulFx(MulFx(2833, v.s2x12), v.cx8)

\* PertNeptune.get_data, lines 654 to 654: dhl
PertNeptune_dhl(v) ==
    MulFx(MulFx(336, v.c2x12), v.sx8)
    + MulFx(MulFx(364, v.s2x12), v.cx8)

\* PertNeptune.get_data, lines 656 to 656: dr
PertNeptune_dr(v) ==
    -405960
    + MulFx(49920, CosMicro(v.x10))
    + MulFx(27440, CosMicro(v.x11))
    + MulFx(20440, CosMicro(v.x12))
    + MulFx(10510, v.c2x12)

\* PertNeptune.get_data: the PertRecord of the sums, s being the eccentricity
PertNeptuneSums(s, v) ==
    [dl |-> PertNeptune_dl(v),
     dr |-> PertNeptune_dr(v),
     dml |-> radians(PertNeptune_dml(v)),
     ds |-> PertNeptune_ds(v),
     dm |-> Fl(radians(PertNeptune_dml(v)) - DivFx(radians(PertNeptune_dp(v)), s)),
     da |-> PertNeptune_da(v),
     dhl |-> radians(PertNeptune_dhl(v))]

\* PertUranus.get_data and PertNeptune.get_data:
\*   x8 = reduce_rad(1.46205 + 3.81337 * t), in units of 1e-6 rad
PertUranus_x8(t) == to_range(Fl(1462050 + MulFx(3813370, t)), 6283185)

\* PertPluto.get_data:  return PertRecord()
PertPlutoOfSun(ctx, dt) == [PertRecord EXCEPT !.dml = ctx.manom_sun]
PertPluto_get_data(ctx, dt) == PertRecord

(***************************************************************************)
(* astropc/planets/planet.py: the heliocentric reduction                   *)
(***************************************************************************)

\* The product of two lengths, AU units
MulAU(a, b) == MulFx(a, 10 * b)

\* The square root of a squared length, AU units
SqrtAU(x) == (Sqrt(10 * x) + 5) \div 10

\* rho = sqrt(re * re + rp * rp - 2 * re * rp * cpsi * cos(ll)).  The squares
\* of the distances of the outer planets are beyond the numbers of the
\* model: there the root is taken of the same sum divided by rp * rp.
EarthDistanceNear(re, rp, cpsi, cll) ==
    SqrtAU(Fl(Fl(MulAU(re, re) + MulAU(rp, rp))
              - MulFx(MulFx(MulAU(2 * re, rp), cpsi), cll)))

EarthDistanceFar(q, rp, cpsi, cll) ==
    MulFx(rp, Sqrt(Fl(Fl(MulFx(q, q) + S)
                      - MulFx(MulFx(2 * q, cpsi), cll))))

EarthDistance(re, rp, cpsi, cll) ==
    IF Abs(re) + Abs(rp) < 4 * AU
    THEN EarthDistanceNear(re, rp, cpsi, cll)
    ELSE EarthDistanceFar(DivFx(re, rp), rp, cpsi, cll)

\* Planet._calculate_heliocentric(oi, ma, re, lg, pert), its local
\* variables in the order of their assignments; each step hands on the
\* locals the later lines read.
\* Lines 119 and 120: s, ma
HelioCorrected(oi, ma0, pert) ==
    [s |-> Fl(oi.eccentricity + pert.ds),
     ma |-> reduce_rad(Fl(ma0 + pert.dm))]

\* Line 121: the mean anomaly eccentric_anomaly is called with
SolverArgument(oi, ma0, pert) == HelioCorrected(oi, ma0, pert).ma

\* Line 121: ea
HelioEccentric(v) == [s |-> v.s, ea |-> eccentric_anomaly(v.s, v.ma, None)]

\* Line 122: nu
HelioTrue(v) == [s |-> v.s, nu |-> true_anomaly(v.s, v.ea)]

\* Lines 124 to 126: rp, lp, lo
HelioRadius(oi, pert, v) ==
    [rp |-> Fl(DivFx(MulFx(Fl(oi.major_semiaxis + pert.da),
                           Fl(S - MulFx(v.s, v.s))),
                     Fl(S + MulFx(v.s, Cos(v.nu)))) + pert.dr),
     lo |-> Fl(Fl(Fl(v.nu + oi.perihelion) + (pert.dml - pert.dm))
               - oi.mean_node)]

\* Line 127: sin_lo, and the cos(lo) of line 132
HelioNode(v) == [rp |-> v.rp, sin_lo |-> Sin(v.lo), cos_lo |-> Cos(v.lo)]

\* Lines 128 to 132: spsi, y, psi, lpd
HelioLatitude(oi, pert, v) ==
    [rp |-> v.rp,
     psi |-> Fl(Asin(MulFx(v.sin_lo, Sin(oi.inclination))) + pert.dhl),
     lpd |-> Fl(Fl(Atan2(MulFx(v.sin_lo, Cos(oi.inclination)), v.cos_lo)
                   + oi.mean_node) + radians(pert.dl))]

\* Lines 133 and 134: cpsi, ll
HelioSight(lg, v) ==
    [rp |-> v.rp, psi |-> v.psi, lpd |-> v.lpd, cpsi |-> Cos(v.psi),
     ll |-> Fl(v.lpd - lg)]

\* Lines 137 to 146: rho and the HelioRecord
HelioRecord(re, v) ==
    [ll |-> v.ll, rpd |-> MulFx(v.rp, v.cpsi), lpd |-> v.lpd,
     spsi |-> Sin(v.psi), cpsi |-> v.cpsi,
     rho |-> EarthDistance(re, v.rp, v.cpsi, Cos(v.ll))]

_calculate_heliocentric(oi, ma0, re, lg, pert) ==
    HelioRecord(re,
      HelioSight(lg,
        HelioLatitude(oi, pert,
          HelioNode(
            HelioRadius(oi, pert,
              HelioTrue(HelioEccentric(HelioCorrected(oi, ma0, pert))))))))

\* h.rho * 5.775518e-3, the delay in days of the second pass: the product of
\* two doubles is zero for a zero factor only.
LightTime(rho) == IF rho = 0 THEN 0 ELSE NonZero(MulFx(rho, 5775518), 1)

(***************************************************************************)
(* astropc/planets/planet.py: geocentric_position, lines 200 to 230        *)
(***************************************************************************)

\* lg = radians(sg.phi) + pi
EarthLongitude(ctx) == Fl(radians(ctx.sun_geo.phi) + PI)

\* lam before its reduction: the branch on is_inner
LongitudeNotReduced(planet, ctx, h) ==
    LET lg == EarthLongitude(ctx)
        rsn == ctx.sun_geo.rho
        sll == Sin(h.ll)
        cll == Cos(h.ll)
    IN  IF planet.is_inner
        THEN Fl(Fl(Atan2(-MulFx(h.rpd, sll), Fl(rsn - MulFx(h.rpd, cll))) + lg)
                + PI)
        ELSE Fl(Atan2(MulFx(rsn, sll), Fl(h.rpd - MulFx(rsn, cll))) + h.lpd)

\* lam = reduce_rad(lam)
GeometricLongitude(planet, ctx, h) ==
    reduce_rad(LongitudeNotReduced(planet, ctx, h))

\* The divisor h.cpsi * rsn * sll of line 219 is zero: a cosine is never
\* zero, a product of doubles of this size is zero for a zero factor only.
LatitudeDivisorIsZero(ctx, h) == Sin(h.ll) = 0 \/ ctx.sun_geo.rho = 0

\* bet = atan(h.rpd * h.spsi * sin(lam - h.lpd) / (h.cpsi * rsn * sll))
GeometricLatitude(ctx, h, lam) ==
    LET rsn == ctx.sun_geo.rho
        sll == Sin(h.ll)
        den == NonZero(MulFx(MulFx(h.cpsi, rsn), sll),
                       Sgn(h.cpsi) * Sgn(rsn) * Sgn(sll))
    IN  AtanQ(MulFx(MulFx(h.rpd, h.spsi), Sin(Fl(lam - h.lpd))), den)

\* Lines 222 to 228: nutation, then aberration (9.9387e-5 rad).
ApparentLongitude(ctx, lam, bet) ==
    LET lam1 == Fl(lam + radians(ctx.nutation.dpsi))
        a == Fl(EarthLongitude(ctx) - lam1)
    IN  reduce_rad(Fl(lam1 - DivFx(MulFx(9939, Cos(a)), Cos(bet))))

ApparentLatitude(ctx, lam, bet) ==
    LET lam1 == Fl(lam + radians(ctx.nutation.dpsi))
        a == Fl(EarthLongitude(ctx) - lam1)
    IN  Fl(bet - MulFx(MulFx(9939, Sin(a)), Sin(bet)))

\* The flag that selects the corrections: if ctx.apparent
CorrectionsAlways(ctx) == TRUE
CorrectionsApply(ctx) == ctx.apparent

\* The local variables lam and bet of geocentric_position as line 221
\* finds them
GeometricLocals(ctx, h, lam) ==
    [lam |-> lam, bet |-> GeometricLatitude(ctx, h, lam)]

\* ... and as the block of line 221 leaves them
CorrectedLocals(ctx, v) ==
    [lam |-> v.lam, bet |-> v.bet,
     lam_out |-> IF CorrectionsApply(ctx)
                 THEN ApparentLongitude(ctx, v.lam, v.bet) ELSE v.lam,
     bet_out |-> IF CorrectionsApply(ctx)
                 THEN ApparentLatitude(ctx, v.lam, v.bet) ELSE v.bet]

PositionLocals(planet, ctx, h) ==
    CorrectedLocals(ctx,
        GeometricLocals(ctx, h, GeometricLongitude(planet, ctx, h)))

\* The EclipticPosition of line 230, from the record h returned by
\* _get_corrected_helio and the locals v.
EclipticPosition(h, v) ==
    [lmbda |-> degrees(v.lam_out), beta |-> degrees(v.bet_out),
     delta |-> h.rho]

VARIABLES
    kep,            \* one call of eccentric_anomaly(s, m): its arguments, the
                    \* _ea of the innermost frame, the _ea of the frames
                    \* below it (the call stack, outermost first) and how the
                    \* call stands
    sphera,         \* the CelestialSphera objects of the program, in the
                    \* order of their construction
    planet,         \* the Planet object whose position is asked for
    planets,        \* the Planet objects in the order Planet.for_id made
                    \* them; an object is known by its place in this sequence
    for_id_cache,   \* functools.cache of Planet.for_id: id -> planet or None
    orbit_cache,    \* functools.cache of get_orbit_instance:
                    \* <<context, id>> -> the OrbitInstance object
    instances,      \* the OrbitInstance objects in the order OElements.
                    \* instantiate made them; an object is known by its
                    \* place in this sequence and holds its mean_anomaly
    requested,      \* how many times get_orbit_instance was called, by
                    \* <<context, id>>
    call,           \* the running or the last geocentric_position call:
                    \* where it stands (pc), its context, its orbit instance
                    \* oi (the object and its fields) and, of the innermost
                    \* frame of _get_corrected_helio, the arguments dt and
                    \* rho and the locals ma and pert; asked are the
                    \* get_mean_anomaly calls of its frames; passes are the
                    \* records _calculate_heliocentric has returned so far,
                    \* h is the record _get_corrected_helio returned, lam
                    \* and bet are the locals of geocentric_position as
                    \* line 221 finds them
    positions,      \* the last EclipticPosition returned, by context
    ret,            \* the outcome of the last call of the client
    ncalls,         \* calls of the client so far
    held,           \* the contexts the client holds a reference to
    threads,        \* the callers that run get_orbit_instance side by
                    \* side: where each stands in the call, its arguments,
                    \* its locals and what it was returned
    cal,            \* one conversion of a civil date to Julian days and
                    \* back: the date, the days and the date found
    sol,            \* one call of sol_equ(year, event_type): its locals and
                    \* the day numbers its passes have started from
    orb             \* one call of OElements.instantiate(t) for the orbit of
                    \* a planet: the planet, t and what was assembled

vars == <<kep, sphera, planet, planets, for_id_cache, orbit_cache, instances,
          requested, call, positions, ret, ncalls, held, threads, cal, sol,
          orb>>

\* The variables of the programs that run apart from the client's calls
apart == <<threads, cal, sol, orb>>

planet_vars == <<sphera, planet, planets, for_id_cache, orbit_cache, instances,
                 requested, call, positions, ret, ncalls, held, threads, cal,
                 sol, orb>>

\* A function with no argument: an empty cache
Empty == [k \in {} |-> 0]

\* No geocentric_position call has been made.
NoCall == [pc |-> "idle", ctx |-> 0, oi |-> <<>>, dt |-> 0, rho |-> 0,
           ma |-> 0, pert |-> PertRecord, solved |-> <<>>, passes |-> <<>>,
           asked |-> <<>>, h |-> <<>>, lam |-> 0, bet |-> 0]

\* The program before its first call: no context, empty caches.
NothingCalled ==
    /\ planets = <<>>
    /\ for_id_cache = Empty
    /\ orbit_cache = Empty
    /\ instances = <<>>
    /\ requested = Empty
    /\ call = NoCall
    /\ positions = Empty
    /\ ret = [op |-> "none", status |-> "none"]
    /\ ncalls = 0
    /\ held = DOMAIN sphera

\* No caller runs side by side with the client, no date is converted, no
\* event of the Sun is asked for and no orbit is instantiated on its own.
NothingApart ==
    /\ threads = <<>>
    /\ cal = [pc |-> "idle"]
    /\ sol = [pc |-> "idle"]
    /\ orb = [pc |-> "idle"]

\* Deepest recursion whose frames the model records; deeper calls keep the
\* recorded stack.
MaxDepth == 60

\* Arguments of eccentric_anomaly: eccentricities and mean anomalies.
KeplerEcc == {1671800, 20563139, 50000000, 90000000, 96500000, 98253767}
KeplerAnom == {0, 16119895, 76300908, 104719755, 172774804, 314159266,
               352083874, 500000000, 628318528}

\* Calls with an eccentricity of 1 and more: eccentric_anomaly(1.0, 1.0)
\* and eccentric_anomaly(1.25, 1.0)
KeplerBeyond == {<<100000000, 100000000>>, <<125000000, 100000000>>}

KeplerArguments == (KeplerEcc \X KeplerAnom) \cup KeplerBeyond

InitKepler ==
    \E a \in KeplerArguments :
        \* if _ea is None: _ea = m
        /\ kep = [s |-> a[1], m |-> a[2], ea |-> a[2], stack |-> <<>>,
                  status |-> "running"]
        /\ sphera = <<>>
        /\ planet = PlanetDef("Mercury")
        /\ NothingCalled
        /\ NothingApart

\* return _ea
KeplerReturn ==
    /\ kep.status = "running"
    /\ KeplerDone(kep.s, kep.m, kep.ea)
    /\ kep' = [kep EXCEPT !.status = "returned"]
    /\ UNCHANGED planet_vars

\* return eccentric_anomaly(s, m, _ea - dla / (1 - (s * cos(_ea))))
KeplerRecurse ==
    /\ kep.status = "running"
    /\ ~KeplerDone(kep.s, kep.m, kep.ea)
    /\ IF KeplerDen(kep.s, kep.ea) = 0
       THEN kep' = [kep EXCEPT !.status = "ZeroDivisionError"]
       ELSE kep' = [kep EXCEPT
                      !.ea = KeplerNext(kep.s, kep.m, kep.ea),
                      !.stack = IF Len(@) < MaxDepth
                                THEN Append(@, kep.ea) ELSE @]
    /\ UNCHANGED planet_vars

NextKepler == KeplerReturn \/ KeplerRecurse

SpecKepler == InitKepler /\ [][NextKepler]_vars

KeplerInDomain ==
    /\ kep.s > 0 /\ kep.s < 99000000
    /\ kep.m >= 0 /\ kep.m < PI2

KeplerFrames == {kep.stack[i] : i \in 1..Len(kep.stack)}

\* C3: for every eccentricity in (0, 0.99) and mean anomaly in [0, 2*pi) the
\* call eccentric_anomaly(e, M) ends, returning E with
\* |E - e*sin(E) - M| < 1e-7.  The call is deterministic: it ends only if no
\* frame is entered with the _ea of a frame below it, and what it returns
\* passes the residual test.
KeplerConverges ==
    KeplerInDomain =>
        /\ kep.status = "running" => kep.ea \notin KeplerFrames
        /\ kep.status = "returned"
             => Abs(KeplerDla(kep.s, kep.m, kep.ea)) < _DELTA
        /\ kep.status \in {"running", "returned"}

\* C4: the solver makes at most a fixed number of Newton iterations (50) and
\* ends in a NonConvergence failure when the residual has not dropped below
\* 1e-7 by then.
KeplerCeiling ==
    /\ Len(kep.stack) <= 50
    /\ (Len(kep.stack) = 50 /\ ~KeplerDone(kep.s, kep.m, kep.ea)
          => kep.status = "NonConvergence")

(***************************************************************************)
(* The program of contexts, caches and geocentric_position calls           *)
(***************************************************************************)

\* Calls of the client in one run
MaxCalls == 2

\* Frames of _get_corrected_helio the interpreter allows on its stack: the
\* recursion limit of CPython (1000 frames) on the scale of the model.
MaxPasses == 4

\* The dt arguments the client hands to get_mean_anomaly: none, 0 and 0.01 day
ClientDelays == {None, <<0>>, <<1000000>>}

\* The identifiers the client calls Planet.for_id with: "Earth" is not a
\* member of PlanetId.
ClientIds == {"Mercury", "Venus", "Mars", "Jupiter", "Earth"}

\* The identifiers Planet.for_id is called with: the members of PlanetId
\* and a value that is none of them.
RegistryIds == PlanetIds \cup {"Earth"}

\* CelestialSphera.create(30700.5): the arguments it hands to __init__.
Sphera30700 ==
    [t |-> 84053388, manom_sun |-> 29490337,
     sun_geo |-> [phi |-> 300130772, rho |-> 9839698],
     obliquity |-> 23442041, nutation |-> [dpsi |-> -4177, deps |-> 685],
     apparent |-> FALSE]

\* A context of Venus at inferior conjunction, as
\* CelestialSphera.create(1942.9119848182293) makes it: the planet is in
\* the heliocentric longitude of the Earth.
SpheraConjunction ==
    [t |-> 5319403, manom_sun |-> 197938490,
     sun_geo |-> [phi |-> 36465760, rho |-> 10068769],
     obliquity |-> 23449287, nutation |-> [dpsi |-> -2207, deps |-> -2316],
     apparent |-> FALSE]

\* A context of Venus in the first point of Aries, as
\* CelestialSphera.create(2673.012734741345) makes it.
SpheraAries ==
    [t |-> 7318310, manom_sun |-> 197218530,
     sun_geo |-> [phi |-> 36094896, rho |-> 10067319],
     obliquity |-> 23450234, nutation |-> [dpsi |-> -4659, deps |-> -1108],
     apparent |-> FALSE]

\* A planet made by the constructor of Planet: a circular orbit of one
\* astronomical unit in the plane of the ecliptic, no perturbations.
Twin ==
    [id |-> "Mercury", is_inner |-> TRUE, pert_calculator |-> "PertCalculator",
     orbit |-> [ml |-> [a |-> 0, bi |-> 0, bf |-> 0, c |-> 0, d |-> 0],
                ph |-> <<0>>, ec |-> <<0>>, inc |-> <<0>>, nd |-> <<0>>,
                sa |-> AU]]

\* A context made by the constructor of CelestialSphera: the Earth at one
\* astronomical unit from the Sun, in the longitude of Twin.
SpheraTwin ==
    [t |-> 84053388, manom_sun |-> 29490337,
     sun_geo |-> [phi |-> 278992526, rho |-> AU],
     obliquity |-> 23442041, nutation |-> [dpsi |-> -4177, deps |-> 685],
     apparent |-> FALSE]

\* A context made by the constructor of CelestialSphera: Venus has just
\* passed its perihelion, and the light-time of the second pass takes its
\* mean anomaly back beyond it.
SpheraPerihelion ==
    [t |-> 84533929, manom_sun |-> 29490337,
     sun_geo |-> [phi |-> 299320000, rho |-> 9839698],
     obliquity |-> 23442041, nutation |-> [dpsi |-> -4177, deps |-> 685],
     apparent |-> FALSE]

\* The runs of the model: a planet and the arguments of its contexts.
Scenarios ==
    {[planet |-> PlanetDef(id), ctx |-> Sphera30700] :
        id \in {"Mercury", "Venus", "Mars"}}
    \cup {[planet |-> PlanetDef("Venus"), ctx |-> SpheraConjunction],
          [planet |-> PlanetDef("Venus"), ctx |-> SpheraAries],
          [planet |-> PlanetDef("Venus"), ctx |-> SpheraPerihelion],
          [planet |-> Twin, ctx |-> SpheraTwin]}

\* Two contexts are constructed from the same arguments, the first with
\* apparent = False and the second with apparent = True.
Init ==
    /\ kep = [s |-> 0, m |-> 0, ea |-> 0, stack |-> <<>>, status |-> "idle"]
    /\ \E sc \in Scenarios :
        /\ planet = sc.planet
        /\ sphera = <<CelestialSphera(sc.ctx, FALSE),
                      CelestialSphera(sc.ctx, TRUE)>>
    /\ NothingCalled
    /\ NothingApart

\* The match statement of Planet.for_id has no default case: the function
\* falls off its end for any other value.
for_id(id) == IF id \in PlanetIds THEN id ELSE "None"

\* functools.cache: a hit returns the stored value
CacheNeverHits(cache, key) == FALSE
CacheHit(cache, key) == key \in DOMAIN cache

\* functools.cache: a miss stores the value the function returned
CacheStore(cache, key, value) ==
    [k \in DOMAIN cache \cup {key} |-> IF k = key THEN value ELSE cache[k]]

\* One more call recorded by key
Count(bag, key) == IF key \in DOMAIN bag THEN bag[key] ELSE 0
CountCall(bag, key) ==
    [k \in DOMAIN bag \cup {key} |-> IF k = key THEN Count(bag, key) + 1
                                     ELSE bag[k]]

\* The caches and the objects of the program as one record.
Memory ==
    [planets |-> planets, for_id_cache |-> for_id_cache,
     orbit_cache |-> orbit_cache, instances |-> instances,
     requested |-> requested]

\* Planet.for_id(id) behind its cache: a miss runs the match statement,
\* which makes a new Planet or falls through, and stores what it returned.
cached_for_id(mem, id) ==
    IF CacheHit(mem.for_id_cache, id) THEN mem
    ELSE IF for_id(id) = "None"
         THEN [mem EXCEPT !.for_id_cache = CacheStore(@, id, "None")]
         ELSE [mem EXCEPT
                 !.planets = Append(@, PlanetDef(for_id(id))),
                 !.for_id_cache = CacheStore(@, id, Len(mem.planets) + 1)]

\* CelestialSphera._instantiate_orbit(id) of context c:
\*   pla = Planet.for_id(id);  return pla.orbit.instantiate(self.t)
_instantiate_orbit(mem, c, id) ==
    [cached_for_id(mem, id) EXCEPT
        !.instances =
            Append(@, [ctx |-> c, id |-> id, by |-> "_instantiate_orbit",
                       fields |-> instantiate(PlanetDef(id).orbit,
                                              sphera[c].t)])]

\* The key functools.cache makes of the arguments (self, id)
CacheKeyOfSelf(c, id) == <<c, "Mercury">>
CacheKeyOfId(c, id) == <<1, id>>
CacheKey(c, id) == <<c, id>>

\* CelestialSphera.get_orbit_instance(id) of context c behind its cache
get_orbit_instance(mem, c, id) ==
    LET m1 == [mem EXCEPT !.requested = CountCall(@, <<c, id>>)]
    IN  IF CacheHit(m1.orbit_cache, CacheKey(c, id)) THEN m1
        ELSE LET m2 == _instantiate_orbit(m1, c, id)
             IN  [m2 EXCEPT !.orbit_cache =
                                CacheStore(@, CacheKey(c, id),
                                           Len(m2.instances))]

\* CelestialSphera.get_mean_anomaly(id, dt) of context c, its effects
get_mean_anomaly(mem, c, id, dt) ==
    IF dt = None THEN get_orbit_instance(mem, c, id)
    ELSE cached_for_id(get_orbit_instance(mem, c, id), id)

\* The object get_orbit_instance(id) of context c returns
InstanceOfAnyContext(mem, c, id) ==
    mem.instances[CHOOSE i \in 1..Len(mem.instances) :
                     /\ mem.instances[i].id = id
                     /\ \A j \in 1..(i - 1) : mem.instances[j].id # id]
CachedInstance(mem, c, id) == mem.instances[mem.orbit_cache[CacheKey(c, id)]]

\* get_mean_anomaly, lines 132 to 135: the local ma is bound to the field
\* of the instance and, with a dt, bound anew to the difference; dm is
\* Planet.for_id(id).orbit.daily_motion.
DelayIgnored(ma, dm, dt) == ma
DelayedAnomaly(ma, dm, dt) ==
    IF dt = None THEN ma ELSE Fl(ma - radians(MulFx(dt[1], dm)))

\* The get_mean_anomaly calls of a perturbation calculator, in their order
RECURSIVE get_mean_anomalies(_, _, _)
get_mean_anomalies(mem, c, asks) ==
    IF asks = <<>> THEN mem
    ELSE get_mean_anomalies(get_mean_anomaly(mem, c, Head(asks).id,
                                             Head(asks).dt), c, Tail(asks))

\* CelestialSphera.get_mean_anomaly(id, dt) of context c, the value it
\* returns: the field of the instance get_orbit_instance(id) gives, delayed
ctx_get_mean_anomaly(mem, c, id, dt) ==
    DelayedAnomaly(CachedInstance(mem, c, id).fields.mean_anomaly,
                   OElements_daily_motion(PlanetDef(id).orbit), dt)

\* The value of the i-th get_mean_anomaly call of calc().get_data(ctx, dt)
AskedAnomaly(mem, c, calc, dt, i) ==
    ctx_get_mean_anomaly(mem, c, pert_asks(calc, dt)[i].id,
                         pert_asks(calc, dt)[i].dt)

\* s = ctx.get_orbit_instance(self.id).eccentricity
own_eccentricity(mem, c, id) == CachedInstance(mem, c, id).fields.eccentricity

\* x = ctx.aux_sun
aux_sun_delayed(ctx, dt) == AuxSun(ctx.t - dt \div 36525)
aux_sun_read(ctx, dt) == ctx.aux_sun

\* What get_data(ctx, dt) of a calculator asks context c for: the inner
\* planets' calculators for mean anomalies, those of Jupiter, Saturn, Uranus
\* and Neptune for the orbit instance of their own planet.
get_data_requests(calc, mem, c, dt) ==
    IF calc \in {"PertJupiter", "PertSaturn", "PertUranus", "PertNeptune"}
    THEN get_orbit_instance(mem, c, PertCalculator_id(calc))
    ELSE get_mean_anomalies(mem, c, pert_asks(calc, dt))

\* PertMercury.get_data: me, ve, ju
PertMercury_get_data(mem, c, dt) ==
    PertMercurySums(AskedAnomaly(mem, c, "PertMercury", dt, 1),
                    AskedAnomaly(mem, c, "PertMercury", dt, 2),
                    AskedAnomaly(mem, c, "PertMercury", dt, 3))

\* PertVenus.get_data: t, ms, ve, ju
PertVenus_get_data(mem, c, dt) ==
    PertVenusSums(sphera[c].t, sphera[c].manom_sun,
                  AskedAnomaly(mem, c, "PertVenus", dt, 1),
                  AskedAnomaly(mem, c, "PertVenus", dt, 2))

\* PertMars.get_data: ve, ju, ms, ma
PertMars_get_data(mem, c, dt) ==
    PertMarsSums(AskedAnomaly(mem, c, "PertMars", dt, 1),
                 AskedAnomaly(mem, c, "PertMars", dt, 2),
                 sphera[c].manom_sun,
                 AskedAnomaly(mem, c, "PertMars", dt, 3))

\* PertJupiter.get_data, PertSaturn.get_data: s, x
PertJupiter_get_data(mem, c, dt) ==
    PertJupiterSums(own_eccentricity(mem, c, "Jupiter"),
                    PertJupiterLocals(aux_sun_read(sphera[c], dt)))

PertSaturn_get_data(mem, c, dt) ==
    PertSaturnSums(own_eccentricity(mem, c, "Saturn"),
                   PertSaturnLocals(aux_sun_read(sphera[c], dt)))

\* PertUranus.get_data, PertNeptune.get_data: t, s, x
PertUranus_get_data(mem, c, dt) ==
    PertUranusSums(own_eccentricity(mem, c, "Uranus"),
                   PertUranusLocals(aux_sun_read(sphera[c], dt),
                                    PertUranus_x8(sphera[c].t)))

PertNeptune_get_data(mem, c, dt) ==
    PertNeptuneSums(own_eccentricity(mem, c, "Neptune"),
                    PertNeptuneLocals(aux_sun_read(sphera[c], dt),
                                      PertUranus_x8(sphera[c].t)))

\* pert_calculator.get_data(ctx, dt), by the class of the calculator; mem
\* are the caches as the requests of the method have left them.
get_data(calc, mem, c, dt) ==
    CASE calc = "PertMercury" -> PertMercury_get_data(mem, c, dt)
      [] calc = "PertVenus" -> PertVenus_get_data(mem, c, dt)
      [] calc = "PertMars" -> PertMars_get_data(mem, c, dt)
      [] calc = "PertJupiter" -> PertJupiter_get_data(mem, c, dt)
      [] calc = "PertSaturn" -> PertSaturn_get_data(mem, c, dt)
      [] calc = "PertUranus" -> PertUranus_get_data(mem, c, dt)
      [] calc = "PertNeptune" -> PertNeptune_get_data(mem, c, dt)
      [] calc = "PertPluto" -> PertPluto_get_data(sphera[c], dt)
      [] calc = "PertCalculator" -> PertRecord

\* The program takes a new call of the client.
Idle ==
    /\ call.pc \in {"idle", "done", "RecursionError", "ZeroDivisionError"}
    /\ ncalls < MaxCalls

Remember(mem) ==
    /\ planets' = mem.planets
    /\ for_id_cache' = mem.for_id_cache
    /\ orbit_cache' = mem.orbit_cache
    /\ instances' = mem.instances
    /\ requested' = mem.requested

\* Planet.for_id(id)
ForId(id) ==
    /\ Idle
    /\ LET mem == cached_for_id(Memory, id)
       IN  /\ Remember(mem)
           /\ ret' = [op |-> "for_id", status |-> "returned", id |-> id,
                      value |-> mem.for_id_cache[id]]
    /\ ncalls' = ncalls + 1
    /\ UNCHANGED <<apart, held, kep, sphera, planet, call, positions>>

\* sphera[c].get_orbit_instance(id)
GetOrbitInstance(c, id) ==
    /\ Idle
    /\ LET mem == get_orbit_instance(Memory, c, id)
       IN  /\ Remember(mem)
           /\ ret' = [op |-> "get_orbit_instance", status |-> "returned",
                      ctx |-> c, id |-> id,
                      value |-> mem.orbit_cache[CacheKey(c, id)]]
    /\ ncalls' = ncalls + 1
    /\ sphera' = [sphera EXCEPT ![c] = ContextAfter(@)]
    /\ UNCHANGED <<apart, held, kep, planet, call, positions>>

\* sphera[c].get_mean_anomaly(id, dt)
GetMeanAnomaly(c, id, dt) ==
    /\ Idle
    /\ \E mem \in {get_mean_anomaly(Memory, c, id, dt)} :
          /\ Remember(mem)
          /\ ret' = [op |-> "get_mean_anomaly", status |-> "returned",
                     ctx |-> c, id |-> id, dt |-> dt,
                     value |-> DelayedAnomaly(
                                  CachedInstance(mem, c, id).fields.mean_anomaly,
                                  OElements_daily_motion(PlanetDef(id).orbit),
                                  dt)]
    /\ ncalls' = ncalls + 1
    /\ sphera' = [sphera EXCEPT ![c] = ContextAfter(@)]
    /\ UNCHANGED <<apart, held, kep, planet, call, positions>>

\* The calculators whose get_data the client calls, and the dt it hands
\* them: 0.0, the default, and 0.01 day.
ClientCalculators == {"PertMercury", "PertVenus", "PertMars", "PertPluto"}
ClientDts == {0, 1000000}

\* calc().get_data(sphera[c], dt)
GetData(calc, c, dt) ==
    /\ Idle
    /\ \E mem \in {get_data_requests(calc, Memory, c, dt)} :
          /\ Remember(mem)
          /\ ret' = [op |-> "get_data", status |-> "returned", calc |-> calc,
                     ctx |-> c, dt |-> dt, asked |-> pert_asks(calc, dt),
                     value |-> get_data(calc, mem, c, dt)]
    /\ ncalls' = ncalls + 1
    /\ sphera' = [sphera EXCEPT ![c] = ContextAfter(@)]
    /\ UNCHANGED <<apart, held, kep, planet, call, positions>>

\* planet.geocentric_position(sphera[c]), lines 200 to 206: the orbit is
\* instantiated from the planet's own elements, then _get_corrected_helio is
\* called with dt = 0 and rho = 0.
GeocentricPosition(c) ==
    /\ Idle
    /\ \E oi \in {instantiate(planet.orbit, sphera[c].t)} :
          /\ instances' = Append(instances,
                                 [ctx |-> c, id |-> planet.id,
                                  by |-> "geocentric_position",
                                  fields |-> oi])
          /\ call' = [pc |-> "anomaly", ctx |-> c,
                      oi |-> [object |-> Len(instances) + 1, fields |-> oi],
                      dt |-> 0, rho |-> 0, ma |-> 0, pert |-> PertRecord,
                      solved |-> <<>>, passes |-> <<>>, asked |-> <<>>,
                      h |-> <<>>, lam |-> 0, bet |-> 0]
    /\ ret' = [op |-> "geocentric_position", status |-> "running"]
    /\ ncalls' = ncalls + 1
    /\ sphera' = [sphera EXCEPT ![c] = ContextAfter(@)]
    /\ UNCHANGED <<apart, held, kep, planet, planets, for_id_cache, orbit_cache,
                   requested, positions>>

\* The get_mean_anomaly calls get_data makes in frame k of
\* _get_corrected_helio, as the call keeps them
AsksOfFrame(k, asks) ==
    [i \in DOMAIN asks |-> [frame |-> k, by |-> "get_data", id |-> asks[i].id,
                            dt |-> asks[i].dt]]

\* Planet._get_corrected_helio, line 172:
\*   ma = ctx.get_mean_anomaly(self.id, dt)
CorrectedHelioAnomaly ==
    /\ call.pc = "anomaly"
    /\ \E mem \in {get_mean_anomaly(Memory, call.ctx, planet.id,
                                     <<call.dt>>)} :
          /\ Remember(mem)
          /\ call' = [call EXCEPT
                        !.pc = "pert",
                        !.asked = Append(@, [frame |-> Len(call.passes) + 1,
                                             by |-> "_get_corrected_helio",
                                             id |-> planet.id,
                                             dt |-> <<call.dt>>]),
                        !.ma = ctx_get_mean_anomaly(mem, call.ctx, planet.id,
                                                    <<call.dt>>)]
    /\ sphera' = [sphera EXCEPT ![call.ctx] = ContextAfter(@)]
    /\ UNCHANGED <<apart, held, kep, planet, positions, ret, ncalls>>

\* Planet._get_corrected_helio, line 173:
\*   pert = self._calculate_perturbations(ctx, dt)
CorrectedHelioPert ==
    /\ call.pc = "pert"
    /\ \E mem \in {get_data_requests(planet.pert_calculator, Memory, call.ctx,
                                      call.dt)} :
          /\ Remember(mem)
          /\ call' = [call EXCEPT
                        !.pc = "reduce",
                        !.asked = @ \o AsksOfFrame(Len(call.passes) + 1,
                                        pert_asks(planet.pert_calculator,
                                                  call.dt)),
                        !.pert = get_data(planet.pert_calculator, mem,
                                          call.ctx, call.dt)]
    /\ sphera' = [sphera EXCEPT ![call.ctx] = ContextAfter(@)]
    /\ UNCHANGED <<apart, held, kep, planet, positions, ret, ncalls>>

\* The distance of the record _get_corrected_helio returns: its argument rho
SecondPassDistance(h, rho) == h.rho
ReturnedDistance(h, rho) == rho

\* Planet._get_corrected_helio, lines 174 to 189: the reduction, then either
\* the recursive call with the delay of the distance found or the return.
CorrectedHelioReduce ==
    /\ call.pc = "reduce"
    /\ \E h \in {_calculate_heliocentric(call.oi.fields, call.ma,
                                         sphera[call.ctx].sun_geo.rho,
                                         EarthLongitude(sphera[call.ctx]),
                                         call.pert)},
          m \in {SolverArgument(call.oi.fields, call.ma, call.pert)} :
          IF call.dt = 0
          THEN IF Len(call.passes) + 1 < MaxPasses
               THEN /\ call' = [call EXCEPT !.passes = Append(@, h),
                                            !.solved = Append(@, m),
                                            !.pc = "anomaly",
                                            !.dt = LightTime(h.rho),
                                            !.rho = h.rho]
                    /\ ret' = ret
               ELSE /\ call' = [call EXCEPT !.passes = Append(@, h),
                                            !.solved = Append(@, m),
                                            !.pc = "RecursionError"]
                    /\ ret' = [ret EXCEPT !.status = "RecursionError"]
          ELSE /\ call' = [call EXCEPT
                             !.passes = Append(@, h),
                             !.solved = Append(@, m),
                             !.pc = "project",
                             !.h = [h EXCEPT !.rho =
                                       ReturnedDistance(h, call.rho)]]
               /\ ret' = ret
    /\ sphera' = [sphera EXCEPT ![call.ctx] = ContextAfter(@)]
    /\ UNCHANGED <<apart, held, kep, planet, planets, for_id_cache, orbit_cache,
                   instances, requested, positions, ncalls>>

\* Planet.geocentric_position, lines 209 to 230.
Project ==
    /\ call.pc = "project"
    /\ IF LatitudeDivisorIsZero(sphera[call.ctx], call.h)
       THEN /\ call' = [call EXCEPT !.pc = "ZeroDivisionError"]
            /\ ret' = [ret EXCEPT !.status = "ZeroDivisionError"]
            /\ positions' = positions
       ELSE /\ \E v \in {PositionLocals(planet, sphera[call.ctx], call.h)} :
                  /\ call' = [call EXCEPT !.pc = "done", !.lam = v.lam,
                                          !.bet = v.bet]
                  /\ ret' = [op |-> "geocentric_position",
                             status |-> "returned",
                             value |-> EclipticPosition(call.h, v)]
            /\ positions' =
                  [k \in DOMAIN positions \cup {call.ctx} |->
                      IF k = call.ctx THEN ret'.value ELSE positions[k]]
    /\ sphera' = [sphera EXCEPT ![call.ctx] = ContextAfter(@)]
    /\ UNCHANGED <<apart, held, kep, planet, planets, for_id_cache, orbit_cache,
                   instances, requested, ncalls>>

\* The client lets go of context c: no name of the client refers to it any
\* more.  No statement of the module runs then; the wrapper functools.cache
\* put around get_orbit_instance belongs to the class and keeps its keys
\* (self, id) and its values.
Drop(c) ==
    /\ call.pc \in {"idle", "done", "RecursionError", "ZeroDivisionError"}
    /\ c \in held
    /\ held' = held \ {c}
    /\ UNCHANGED <<apart, kep, sphera, planet, planets, for_id_cache,
                   orbit_cache, instances, requested, call, positions, ret,
                   ncalls>>

\* The client calls the contexts it holds.
Next ==
    \/ \E id \in RegistryIds : ForId(id)
    \/ \E c \in held, id \in ClientIds \cap PlanetIds :
          GetOrbitInstance(c, id)
    \/ \E c \in held, id \in ClientIds \cap PlanetIds,
          dt \in ClientDelays : GetMeanAnomaly(c, id, dt)
    \/ \E calc \in ClientCalculators, c \in held, dt \in ClientDts :
          GetData(calc, c, dt)
    \/ \E c \in held : GeocentricPosition(c)
    \/ CorrectedHelioAnomaly
    \/ CorrectedHelioPert
    \/ CorrectedHelioReduce
    \/ Project

Spec == Init /\ [][Next]_vars

\* The client asks its contexts for orbit instances and drops them.
NextDrop ==
    \/ \E c \in held, id \in ClientIds \cap PlanetIds :
          GetOrbitInstance(c, id)
    \/ \E c \in held, id \in ClientIds \cap PlanetIds,
          dt \in ClientDelays : GetMeanAnomaly(c, id, dt)
    \/ \E c \in held : Drop(c)

SpecDrop == Init /\ [][NextDrop]_vars

(***************************************************************************)
(* Two contexts made for different epochs, and the eight planets of       *)
(* Planet.for_id                                                           *)
(***************************************************************************)

\* CelestialSphera.create(30700.5) and CelestialSphera.create(2673.0127...)
InitEpochs ==
    /\ kep = [s |-> 0, m |-> 0, ea |-> 0, stack |-> <<>>, status |-> "idle"]
    /\ \E id \in PlanetIds : planet = PlanetDef(id)
    /\ sphera = <<CelestialSphera(Sphera30700, FALSE),
                  CelestialSphera(SpheraAries, FALSE)>>
    /\ NothingCalled
    /\ NothingApart

\* The dt arguments the client hands to get_mean_anomaly: none and 0.01 day
EpochDelays == {None, <<1000000>>}

\* The client asks either context for the orbit instances and the mean
\* anomalies of the planet and of Venus and Jupiter, for the perturbations
\* of the planet and for its position.
NextEpochs ==
    \/ \E c \in held, id \in {planet.id, "Venus", "Jupiter"} :
          GetOrbitInstance(c, id)
    \/ \E c \in held, id \in {planet.id, "Venus", "Jupiter"},
          dt \in EpochDelays : GetMeanAnomaly(c, id, dt)
    \/ \E c \in held, dt \in ClientDts :
          GetData(planet.pert_calculator, c, dt)
    \/ \E c \in held : GeocentricPosition(c)
    \/ CorrectedHelioAnomaly
    \/ CorrectedHelioPert
    \/ CorrectedHelioReduce
    \/ Project

SpecEpochs == InitEpochs /\ [][NextEpochs]_vars

\* The caches of a program that has made no call yet
FreshMemory ==
    [planets |-> <<>>, for_id_cache |-> Empty, orbit_cache |-> Empty,
     instances |-> <<>>, requested |-> Empty]

\* calc().get_data(sphera[c], dt) called before any other call
get_data_fresh(calc, c, dt) ==
    get_data(calc, get_data_requests(calc, FreshMemory, c, dt), c, dt)

\* One frame of pl._get_corrected_helio(sphera[c], oi, dt, rho) of a program
\* that has made no call yet: lines 172 to 174
FreshPass(pl, c, dt) ==
    _calculate_heliocentric(instantiate(pl.orbit, sphera[c].t),
                            mean_anomaly_value(sphera[c].t, pl.id, <<dt>>),
                            sphera[c].sun_geo.rho, EarthLongitude(sphera[c]),
                            get_data_fresh(pl.pert_calculator, c, dt))

\* Lines 175 to 189: the record of the second frame, h1 being the record
\* of the first
FreshReturned(h2, rho) == [h2 EXCEPT !.rho = ReturnedDistance(h2, rho)]
FreshHelio(pl, c, h1) ==
    FreshReturned(FreshPass(pl, c, LightTime(h1.rho)), h1.rho)

FreshPosition(pl, c, h) ==
    EclipticPosition(h, PositionLocals(pl, sphera[c], h))

\* pl.geocentric_position(sphera[c]) called before any other call
geocentric_position_fresh(pl, c) ==
    FreshPosition(pl, c, FreshHelio(pl, c, FreshPass(pl, c, 0)))

(***************************************************************************)
(* astropc/planets/sphera.py: get_orbit_instance called by threads.  The   *)
(* wrapper of functools.cache looks the key up, calls the function on a    *)
(* miss and then stores what it returned; another thread can run between   *)
(* any two of these steps.                                                 *)
(***************************************************************************)

\* The threads and the calls each of them makes
NCallers == 2
MaxRequests == 2

\* The identifiers the threads ask for
RaceIds == {"Mercury", "Venus"}

\* A thread that has not called yet
NoRequest == [pc |-> "idle", ctx |-> 0, id |-> "None", pla |-> 0,
              made |-> 0, value |-> 0, calls |-> 0]

InitRace ==
    /\ kep = [s |-> 0, m |-> 0, ea |-> 0, stack |-> <<>>, status |-> "idle"]
    /\ planet = PlanetDef("Mercury")
    /\ sphera = <<CelestialSphera(Sphera30700, FALSE),
                  CelestialSphera(Sphera30700, TRUE)>>
    /\ NothingCalled
    /\ threads = [i \in 1..NCallers |-> NoRequest]
    /\ cal = [pc |-> "idle"]
    /\ sol = [pc |-> "idle"]
    /\ orb = [pc |-> "idle"]

race_fixed == <<kep, sphera, planet, call, positions, ret, ncalls, held, cal,
                sol, orb>>

\* Thread i calls sphera[c].get_orbit_instance(id).
RaceCall(i, c, id) ==
    /\ threads[i].pc \in {"idle", "returned"}
    /\ threads[i].calls < MaxRequests
    /\ threads' = [threads EXCEPT ![i] = [NoRequest EXCEPT
                      !.pc = "lookup", !.ctx = c, !.id = id,
                      !.calls = threads[i].calls + 1]]
    /\ requested' = CountCall(requested, <<c, id>>)
    /\ UNCHANGED <<race_fixed, planets, for_id_cache, orbit_cache, instances>>

\* The wrapper of get_orbit_instance looks the key up: a hit returns the
\* stored object, a miss goes on to call _instantiate_orbit.
RaceLookup(i) ==
    /\ threads[i].pc = "lookup"
    /\ threads' = [threads EXCEPT ![i] =
          IF CacheHit(orbit_cache, CacheKey(threads[i].ctx, threads[i].id))
          THEN [@ EXCEPT !.pc = "returned",
                         !.value = orbit_cache[CacheKey(threads[i].ctx,
                                                        threads[i].id)]]
          ELSE [@ EXCEPT !.pc = "for_id"]]
    /\ UNCHANGED <<race_fixed, planets, for_id_cache, orbit_cache, instances,
                   requested>>

\* _instantiate_orbit, line 104: the wrapper of Planet.for_id looks id up.
RaceForId(i) ==
    /\ threads[i].pc = "for_id"
    /\ threads' = [threads EXCEPT ![i] =
          IF CacheHit(for_id_cache, threads[i].id)
          THEN [@ EXCEPT !.pc = "instantiate",
                         !.pla = for_id_cache[threads[i].id]]
          ELSE [@ EXCEPT !.pc = "make"]]
    /\ UNCHANGED <<race_fixed, planets, for_id_cache, orbit_cache, instances,
                   requested>>

\* The match statement of Planet.for_id makes a Planet.
RaceMakePlanet(i) ==
    /\ threads[i].pc = "make"
    /\ planets' = Append(planets, PlanetDef(for_id(threads[i].id)))
    /\ threads' = [threads EXCEPT ![i].pc = "keep",
                                  ![i].pla = Len(planets) + 1]
    /\ UNCHANGED <<race_fixed, for_id_cache, orbit_cache, instances,
                   requested>>

\* The wrapper of Planet.for_id stores the Planet and returns it.
RaceKeepPlanet(i) ==
    /\ threads[i].pc = "keep"
    /\ for_id_cache' = CacheStore(for_id_cache, threads[i].id,
                                  threads[i].pla)
    /\ threads' = [threads EXCEPT ![i].pc = "instantiate"]
    /\ UNCHANGED <<race_fixed, planets, orbit_cache, instances, requested>>

\* _instantiate_orbit, line 105: return pla.orbit.instantiate(self.t)
RaceInstantiate(i) ==
    /\ threads[i].pc = "instantiate"
    /\ instances' =
          Append(instances,
                 [ctx |-> threads[i].ctx, id |-> threads[i].id,
                  by |-> "_instantiate_orbit",
                  fields |-> instantiate(planets[threads[i].pla].orbit,
                                         sphera[threads[i].ctx].t)])
    /\ threads' = [threads EXCEPT ![i].pc = "store",
                                  ![i].made = Len(instances) + 1]
    /\ UNCHANGED <<race_fixed, planets, for_id_cache, orbit_cache, requested>>

\* The wrapper of get_orbit_instance stores the object _instantiate_orbit
\* returned under the key and returns it.
RaceStore(i) ==
    /\ threads[i].pc = "store"
    /\ orbit_cache' = CacheStore(orbit_cache,
                                 CacheKey(threads[i].ctx, threads[i].id),
                                 threads[i].made)
    /\ threads' = [threads EXCEPT ![i].pc = "returned",
                                  ![i].value = threads[i].made]
    /\ UNCHANGED <<race_fixed, planets, for_id_cache, instances, requested>>

NextRace ==
    \/ \E i \in DOMAIN threads, c \in DOMAIN sphera, id \in RaceIds :
          RaceCall(i, c, id)
    \/ \E i \in DOMAIN threads : RaceLookup(i)
    \/ \E i \in DOMAIN threads : RaceForId(i)
    \/ \E i \in DOMAIN threads : RaceMakePlanet(i)
    \/ \E i \in DOMAIN threads : RaceKeepPlanet(i)
    \/ \E i \in DOMAIN threads : RaceInstantiate(i)
    \/ \E i \in DOMAIN threads : RaceStore(i)

SpecRace == InitRace /\ [][NextRace]_vars

(***************************************************************************)
(* astropc/timeutils/julian.py.  A day with its hours is a whole number of *)
(* quarters of a day, and so is a number of Julian days: every value the   *)
(* functions compute from them is exact in the program's arithmetic.       *)
(***************************************************************************)

\* math.trunc(a / b), b > 0
Trunc(a, b) == Sgn(a) * (Abs(a) \div b)

\* math.floor(n / d + x), d > 0, for an x that carries into the next whole
\* number from the remainder `from` on
FloorWith(n, d, from) == (n \div d) + (IF n % d >= from THEN 1 ELSE 0)

\* after_gregorian(year, month, day, DEFAULT_GREG_START)
after_gregorian(year, month, day) ==
    IF year < 1582 THEN FALSE
    ELSE IF year > 1582 THEN TRUE
    ELSE IF month < 10 THEN FALSE
    ELSE IF month > 10 THEN TRUE
    ELSE day >= 4 * 15

\* jul_day: y, the astronomical year counted from March
jul_day_y(year, month) ==
    (IF year < 0 THEN year + 1 ELSE year) - (IF month < 3 THEN 1 ELSE 0)

\* jul_day: a = trunc(y / 100);  b = 2 - a + trunc(a / 4), or b = 0
jul_day_b(year, month, day, y) ==
    IF after_gregorian(year, month, day)
    THEN 2 - Trunc(y, 100) + Trunc(Trunc(y, 100), 4)
    ELSE 0

\* jul_day: f = 365.25 * y;  c = trunc(f - 0.75 if y < 0 else f) - 694025
jul_day_c(y) ==
    (IF y < 0 THEN Trunc(1461 * y - 3, 4) ELSE Trunc(1461 * y, 4)) - 694025

\* jul_day: e = trunc(30.6001 * (m + 1)), m the month counted from March
jul_day_e(month) ==
    Trunc(306001 * ((IF month < 3 THEN month + 12 ELSE month) + 1), 10000)

\* jul_day(year, month, day) in quarters of a day: b + c + e + day - 0.5
jul_day(year, month, day) ==
    4 * (jul_day_b(year, month, day, jul_day_y(year, month))
         + jul_day_c(jul_day_y(year, month)) + jul_day_e(month)) + day - 2

\* cal_date: a = floor(i / 36524.25 + 9.9835726e-1) + 14
cal_date_a(i) == FloorWith(4 * i, 146097, 240) + 14

\* cal_date: if i > -115860: i += 1 + a - floor(a / 4)
cal_date_i(i) ==
    IF i > -115860 THEN i + 1 + cal_date_a(i) - (cal_date_a(i) \div 4)
    ELSE i

\* cal_date: b = floor(i / 365.25 + 8.02601e-1)
cal_date_b(i) == FloorWith(4 * i, 1461, 289)

\* cal_date: c = i - floor(365.25 * b + 7.50001e-1) + 416
cal_date_c(i, b) == i - FloorWith(1461 * b, 4, 1) + 416

\* cal_date: g = floor(c / 30.6001)
cal_date_g(c) == (10000 * c) \div 306001

\* cal_date: mo = g - (13 if g > 13.5 else 1)
cal_date_mo(g) == g - (IF g >= 14 THEN 13 ELSE 1)

\* cal_date: ye = b + (1900 if mo < 2.5 else 1899);  if ye < 1: ye -= 1
cal_date_ye(b, mo) ==
    IF b + (IF mo <= 2 THEN 1900 ELSE 1899) < 1
    THEN b + (IF mo <= 2 THEN 1900 ELSE 1899) - 1
    ELSE b + (IF mo <= 2 THEN 1900 ELSE 1899)

\* cal_date: da = c - floor(30.6001 * g) + f;  return ye, mo, da
cal_date_of(f, b, c, g) ==
    <<cal_date_ye(b, cal_date_mo(g)), cal_date_mo(g),
      4 * (c - ((306001 * g) \div 10000)) + f>>

\* cal_date: the date of the whole days i and the fraction f of modf
cal_date_from(f, i) ==
    cal_date_of(f, cal_date_b(i), cal_date_c(i, cal_date_b(i)),
                cal_date_g(cal_date_c(i, cal_date_b(i))))

\* cal_date(djd):  d = djd + 0.5;  (f, i) = modf(d), both with the sign of d
cal_date(djd) ==
    cal_date_from((djd + 2) - 4 * Trunc(djd + 2, 4),
                  cal_date_i(Trunc(djd + 2, 4)))

\* The civil dates converted: years of both eras and of both calendars,
\* every month, the first, a middle and the last days of the month, at
\* 0h, 6h, 12h and 18h.
CalYears == {-4713, -1000, -1, 1, 1000, 1582, 1850, 1899, 1900, 1984, 2000}

\* The length of a civil month: February has 29 days in every fourth
\* year of the Julian calendar and, in the Gregorian calendar, in every
\* fourth year but the centuries not divisible by 400.
LeapYear(year) ==
    IF year < 0 THEN (year + 1) % 4 = 0
    ELSE IF year <= 1582 THEN year % 4 = 0
    ELSE year % 4 = 0 /\ (year % 100 # 0 \/ year % 400 = 0)

LastDay(year, month) ==
    IF month = 2 THEN (IF LeapYear(year) THEN 29 ELSE 28)
    ELSE IF month \in {4, 6, 9, 11} THEN 30 ELSE 31

CalDays(year, month) == {1, 15, 28, LastDay(year, month)}

InitCalendar ==
    /\ kep = [s |-> 0, m |-> 0, ea |-> 0, stack |-> <<>>, status |-> "idle"]
    /\ planet = PlanetDef("Mercury")
    /\ sphera = <<>>
    /\ NothingCalled
    /\ threads = <<>>
    /\ sol = [pc |-> "idle"]
    /\ orb = [pc |-> "idle"]
    /\ \E year \in CalYears, month \in 1..12, q \in 0..3 :
          \E d \in CalDays(year, month) :
             cal = [pc |-> "date", year |-> year, month |-> month,
                    day |-> 4 * d + q, djd |-> 0, found |-> <<>>]

calendar_fixed == <<kep, sphera, planet, planets, for_id_cache, orbit_cache,
                    instances, requested, call, positions, ret, ncalls,
                    held, threads, sol, orb>>

\* djd = jul_day(year, month, day)
CalJulDay ==
    /\ cal.pc = "date"
    /\ cal' = [cal EXCEPT !.pc = "days",
                          !.djd = jul_day(cal.year, cal.month, cal.day)]
    /\ UNCHANGED calendar_fixed

\* cal_date(djd)
CalCalDate ==
    /\ cal.pc = "days"
    /\ cal' = [cal EXCEPT !.pc = "back", !.found = cal_date(cal.djd)]
    /\ UNCHANGED calendar_fixed

NextCalendar == CalJulDay \/ CalCalDate

SpecCalendar == InitCalendar /\ [][NextCalendar]_vars

(***************************************************************************)
(* Times far from the epoch.  A double holds sixteen digits, and the Sun's *)
(* mean longitude needs them: at year 154000 the argument 100.0021359 * t  *)
(* is 152101 turns, and the sixth decimal of a degree is the eleventh      *)
(* digit of the product.  Day numbers, centuries and what sol_equ computes *)
(* of them are therefore decimal numbers of five limbs of 10000, three of  *)
(* them after the point, with a sign: [sg |-> 1 or -1, m |-> the limbs,    *)
(* lowest first].  A product drops the limbs below the last place.         *)
(***************************************************************************)

\* The number sg * (whole + f1 / 1e8 + f2 / 1e12)
Wide(sg, whole, f1, f2) ==
    [sg |-> sg,
     m |-> <<f2, f1 % 10000, f1 \div 10000, whole % 10000, whole \div 10000>>]

RECURSIVE MagLess(_, _, _)
MagLess(a, b, i) ==
    IF i = 0 THEN FALSE
    ELSE IF a[i] # b[i] THEN a[i] < b[i]
    ELSE MagLess(a, b, i - 1)

RECURSIVE MagAdd(_, _, _, _)
MagAdd(a, b, i, carry) ==
    IF i > 5 THEN <<>>
    ELSE <<(a[i] + b[i] + carry) % 10000>>
         \o MagAdd(a, b, i + 1, (a[i] + b[i] + carry) \div 10000)

\* a - b for a >= b
RECURSIVE MagSub(_, _, _, _)
MagSub(a, b, i, borrow) ==
    IF i > 5 THEN <<>>
    ELSE <<(a[i] - b[i] - borrow) % 10000>>
         \o MagSub(a, b, i + 1, IF a[i] - b[i] - borrow < 0 THEN 1 ELSE 0)

\* a + b
WAdd(a, b) ==
    IF a.sg = b.sg THEN [sg |-> a.sg, m |-> MagAdd(a.m, b.m, 1, 0)]
    ELSE IF MagLess(a.m, b.m, 5)
    THEN [sg |-> b.sg, m |-> MagSub(b.m, a.m, 1, 0)]
    ELSE [sg |-> a.sg, m |-> MagSub(a.m, b.m, 1, 0)]

\* a - b
WSub(a, b) == WAdd(a, [b EXCEPT !.sg = -@])

\* Limb i of a magnitude, 0 beyond its limbs
Limb(a, i) == IF i >= 1 /\ i <= 5 THEN a[i] ELSE 0

\* The column k of the product of two magnitudes
ColSum(a, b, k) ==
    Limb(a, 1) * Limb(b, k) + Limb(a, 2) * Limb(b, k - 1)
    + Limb(a, 3) * Limb(b, k - 2) + Limb(a, 4) * Limb(b, k - 3)
    + Limb(a, 5) * Limb(b, k - 4)

\* The limbs of the product from column k on, the columns below the last
\* place giving their carry only
RECURSIVE MagMul(_, _, _, _)
MagMul(a, b, k, carry) ==
    IF k > 8 THEN <<>>
    ELSE (IF k > 3 THEN <<(ColSum(a, b, k) + carry) % 10000>> ELSE <<>>)
         \o MagMul(a, b, k + 1, (ColSum(a, b, k) + carry) \div 10000)

\* a * b
WMul(a, b) == [sg |-> a.sg * b.sg, m |-> MagMul(a.m, b.m, 1, 0)]

\* The limbs of a / d from limb i down, rem being left of the limbs above.
RECURSIVE MagDiv(_, _, _, _)
MagDiv(a, d, i, rem) ==
    IF i = 0 THEN <<>>
    ELSE MagDiv(a, d, i - 1, (rem * 10000 + a[i]) % d)
         \o <<(rem * 10000 + a[i]) \div d>>

\* a / d for a whole number 0 < d < 200000
WDiv(a, d) == [sg |-> a.sg, m |-> MagDiv(a.m, d, 5, 0)]

\* frac(x): the fractional part keeps the sign
WFrac(a) == [a EXCEPT !.m = [i \in 1..5 |-> IF i <= 3 THEN @[i] ELSE 0]]

\* a < 0
WNegative(a) == a.sg = -1 /\ \E i \in 1..5 : a.m[i] # 0

\* math.fmod(a, 360)
WFmod360(a) ==
    [a EXCEPT !.m = [i \in 1..5 |->
                        IF i <= 3 THEN @[i]
                        ELSE IF i = 4 THEN (@[5] * 10000 + @[4]) % 360
                        ELSE 0]]

\* reduce_deg(x) = to_range(x, 360)
WReduceDeg(a) ==
    IF WNegative(WFmod360(a)) THEN WAdd(WFmod360(a), Wide(1, 360, 0, 0))
    ELSE [WFmod360(a) EXCEPT !.sg = 1]

\* frac360(x) = frac(x) * 360.0
WFrac360(x) == WMul(WFrac(x), Wide(1, 360, 0, 0))

\* A wide number below 2147 in DEG units (or millionths)
WToDeg(a) ==
    a.sg * ((a.m[5] * 10000 + a.m[4]) * DEG + a.m[3] * 100 + (a.m[2] \div 100))

\* A wide number below 21 as an S-scaled number
WToFx(a) == Fl(a.sg * (a.m[4] * S + a.m[3] * 10000 + a.m[2]))

\* An S-scaled number as a wide number
WFromFx(v) == Wide(IF v < 0 THEN -1 ELSE 1, Abs(v) \div S, Abs(v) % S, 0)

\* A whole number as a wide number
WInt(n) == Wide(IF n < 0 THEN -1 ELSE 1, Abs(n), 0, 0)

\* DEG units (or millionths) as a wide number
WFromDeg(v) ==
    Wide(IF v < 0 THEN -1 ELSE 1, Abs(v) \div DEG, (Abs(v) % DEG) * 100, 0)

\* fabs(a) < fabs(b)
WSmaller(a, b) == MagLess(a.m, b.m, 5)

\* pi / 2, pi, 2 * pi; pi / 180 and 180 / pi
WPiHalf == Wide(1, 1, 57079632, 6795)
WPi == Wide(1, 3, 14159265, 3590)
WPi2 == Wide(1, 6, 28318530, 7180)
WRad == Wide(1, 0, 1745329, 2520)
WDeg == Wide(1, 57, 29577951, 3082)

\* math.radians and math.degrees
WRadians(a) == WMul(a, WRad)
WDegrees(a) == WMul(a, WDeg)

\* 1 / b for 1/20 < |b| < 20 by Newton's iteration r * (2 - b * r) from the
\* S-scaled quotient
WRecipStep(b, r) == WMul(r, WSub(Wide(1, 2, 0, 0), WMul(b, r)))
WReciprocal(b) ==
    WRecipStep(b, WRecipStep(b, WFromFx(DivFx(S, WToFx(b)))))

\* a / b
WDivide(a, b) == WMul(a, WReciprocal(b))

\* math.sqrt(x) by Newton's iteration (y + x / y) / 2 from the S-scaled root
WSqrtStep(x, y) == WDiv(WAdd(y, WDivide(x, y)), 2)
WSqrt(x) == WSqrtStep(x, WSqrtStep(x, WFromFx(Sqrt(WToFx(x)))))

\* The alternating series t - t*z2/((k+1)(k+2)) + ... added to sum, t being
\* the term of degree k, until a term is below the last place.
RECURSIVE WSeries(_, _, _, _)
WSeries(sum, t, z2, k) ==
    IF WAdd(sum, t) = sum THEN sum
    ELSE WSeries(WAdd(sum, t),
                 [WDiv(WMul(t, z2), (k + 1) * (k + 2)) EXCEPT !.sg = -@],
                 z2, k + 2)

\* The sine and cosine series on [-pi/4, pi/4].
WSinCore(z) == WSeries(Wide(1, 0, 0, 0), z, WMul(z, z), 1)
WCosCore(z) == WSeries(Wide(1, 0, 0, 0), Wide(1, 1, 0, 0), WMul(z, z), 0)

\* What is left of x after its nearest quarter turn n
WOctant(x, n) == WSub(x, WMul(WInt(n), WPiHalf))

\* The sine and the cosine of n quarter turns and z
WSinTurn(n, z) ==
    [(IF n % 2 = 0 THEN WSinCore(z) ELSE WCosCore(z))
        EXCEPT !.sg = IF n < 2 THEN @ ELSE -@]

WCosTurn(n, z) ==
    [(IF n % 2 = 0 THEN WCosCore(z) ELSE WSinCore(z))
        EXCEPT !.sg = IF n = 0 \/ n = 3 THEN @ ELSE -@]

\* math.sin and math.cos, |x| < 20
WSin(x) == WSinTurn(Quadrant(WToFx(x)) % 4, WOctant(x, Quadrant(WToFx(x))))
WCos(x) == WCosTurn(Quadrant(WToFx(x)) % 4, WOctant(x, Quadrant(WToFx(x))))

\* math.atan(n / d) of the pair: the S-scaled angle a of AtanQ and the
\* tangent of what is left, tan(atan(n / d) - a), which is below 1e-7 and
\* its own arctangent to the last place.
WAtanRest(n, d, a) ==
    WDivide(WSub(WMul(n, WCos(a)), WMul(d, WSin(a))),
            WAdd(WMul(d, WCos(a)), WMul(n, WSin(a))))

WAtanFrom(n, d, a) == WAdd(a, WAtanRest(n, d, a))

WAtanQ(n, d) == WAtanFrom(n, d, WFromFx(AtanQ(WToFx(n), WToFx(d))))

\* dla = _ea - (s * sin(_ea)) - m
WKeplerDla(s, m, ea) == WSub(WSub(ea, WMul(s, WSin(ea))), m)

\* eccentric_anomaly(s, m, _ea): fabs(dla) < _DELTA ends the recursion, the
\* next call has _ea - dla / (1 - (s * cos(_ea)))
RECURSIVE WEccentricAnomaly(_, _, _)
WEccentricAnomaly(s, m, ea) ==
    IF WSmaller(WKeplerDla(s, m, ea), Wide(1, 0, _DELTA, 0)) THEN ea
    ELSE WEccentricAnomaly(
             s, m, WSub(ea, WDivide(WKeplerDla(s, m, ea),
                                    WSub(Wide(1, 1, 0, 0), WMul(s, WCos(ea))))))

\* true_anomaly(s, ea) = 2 * atan(sqrt((1 + s) / (1 - s)) * tan(ea / 2))
WTrueAnomaly(s, ea) ==
    WMul(Wide(1, 2, 0, 0),
         WAtanQ(WMul(WSqrt(WDivide(WAdd(Wide(1, 1, 0, 0), s),
                                   WSub(Wide(1, 1, 0, 0), s))),
                     WSin(WDiv(ea, 2))),
                WCos(WDiv(ea, 2))))

(***************************************************************************)
(* astropc/sun/sun.py and astropc/nutation.py, t a wide number             *)
(***************************************************************************)

\* mean_longitude(t), arc-degrees
sun_mean_longitude(t) ==
    WReduceDeg(WAdd(WAdd(Wide(1, 279, 69668000, 0),
                         WMul(WMul(Wide(1, 0, 30250, 0), t), t)),
                    WFrac360(WMul(Wide(1, 100, 213590, 0), t))))

\* mean_anomaly(t), arc-degrees
sun_mean_anomaly(t) ==
    WReduceDeg(WAdd(WSub(Wide(1, 358, 47583000, 0),
                         WMul(WMul(WAdd(Wide(1, 0, 15000, 0),
                                        WMul(Wide(1, 0, 330, 0), t)), t), t)),
                    WFrac360(WMul(Wide(1, 99, 99736042, 0), t))))

\* polynome(t, 1.675104e-2, -4.18e-5, -1.26e-7), the eccentricity
sun_eccentricity(t) ==
    WAdd(WMul(WAdd(WMul(Wide(-1, 0, 12, 6000), t),
                   Wide(-1, 0, 4180, 0)), t),
         Wide(1, 0, 1675104, 0))

\* The argument of a small periodic term: math.radians of wide arc-degrees
\* as an S-scaled number, whole turns dropped.
ArcRadians(a) == radians(WToDeg(WReduceDeg(a)))

\* _calc_perturbations(t, a, b) = radians(a + frac360(b * t))
_calc_perturbations(t, a, b) == ArcRadians(WAdd(a, WFrac360(WMul(b, t))))

\* dl, the correction in orbital longitude, DEG units
sun_dl(t) ==
    MulFx(1340, Cos(_calc_perturbations(t, Wide(1, 153, 23000000, 0),
                                        Wide(1, 62, 55209472, 0))))
    + MulFx(1540, Cos(_calc_perturbations(t, Wide(1, 216, 57000000, 0),
                                          Wide(1, 125, 10418940, 0))))
    + MulFx(2000, Cos(_calc_perturbations(t, Wide(1, 312, 69000000, 0),
                                          Wide(1, 91, 56766028, 0))))
    + MulFx(1790, Sin(_calc_perturbations(
                         t, WSub(Wide(1, 350, 74000000, 0),
                                 WMul(Wide(1, 0, 144000, 0), WMul(t, t))),
                         Wide(1, 1236, 85309500, 0))))
    + MulFx(1780, Sin(ArcRadians(WAdd(Wide(1, 231, 19000000, 0),
                                    WMul(Wide(1, 20, 20000000, 0), t)))))

\* ma - PI2 * floor(ma / PI2) for 0 <= ma < 2 * PI2
SunSolverArgument(ma) == IF WSmaller(ma, WPi2) THEN ma ELSE WSub(ma, WPi2)

\* lsn = reduce_deg(degrees(nu) + ls - ms + dl) of true_geocentric(t)
sun_lsn(nu, ls, ms, dl) ==
    WReduceDeg(WAdd(WSub(WAdd(WDegrees(nu), ls), ms), WFromDeg(dl)))

\* The arguments ls, ms, ld, md, nm of calc_nutation(t): the constant, the
\* coefficient of t2 and the rate, the rate taken with the sign sg.
NutationArg(t, a, c, b, sg) ==
    ArcRadians(WAdd(WAdd(a, WMul(c, WMul(t, t))),
                    [WFrac360(WMul(b, t)) EXCEPT !.sg = sg * @]))

nutation_ls(t) ==
    NutationArg(t, Wide(1, 279, 69670000, 0), Wide(1, 0, 30300, 0),
                Wide(1, 100, 213580, 0), 1)
nutation_ms(t) ==
    NutationArg(t, Wide(1, 358, 47580000, 0), Wide(-1, 0, 15000, 0),
                Wide(1, 99, 99736056, 0), 1)
nutation_ld(t) ==
    NutationArg(t, Wide(1, 270, 43420000, 0), Wide(-1, 0, 113300, 0),
                Wide(1, 1336, 85523100, 0), 1)
nutation_md(t) ==
    NutationArg(t, Wide(1, 296, 10460000, 0), Wide(1, 0, 919200, 0),
                Wide(1, 1325, 55235900, 0), 1)
nutation_nm(t) ==
    NutationArg(t, Wide(1, 259, 18330000, 0), Wide(1, 0, 207800, 0),
                Wide(1, 5, 37261666, 7000), -1)

\* A coefficient a + b * t of the series, in millionths of an arc-second
NutationCoef(t, a, b) == WToDeg(WAdd(a, WMul(b, t)))

\* The series of dpsi, arc-seconds in millionths
nutation_series(t, ls, ms, ld, md, nm) ==
    MulFx(NutationCoef(t, Wide(-1, 17, 23270000, 0), Wide(-1, 0, 1737000, 0)),
          Sin(nm))
    + MulFx(NutationCoef(t, Wide(-1, 1, 27290000, 0), Wide(-1, 0, 13000, 0)),
            Sin(2 * ls))
    + MulFx(208800, Sin(2 * nm))
    - MulFx(203700, Sin(2 * ld))
    + MulFx(NutationCoef(t, Wide(1, 0, 12610000, 0), Wide(-1, 0, 31000, 0)),
            Sin(ms))
    + MulFx(67500, Sin(md))
    - MulFx(NutationCoef(t, Wide(1, 0, 4970000, 0), Wide(-1, 0, 12000, 0)),
            Sin(2 * ls + ms))
    - MulFx(34200, Sin(2 * ld - nm))
    - MulFx(26100, Sin(2 * ld + md))
    + MulFx(21400, Sin(2 * ls - ms))
    - MulFx(14900, Sin(2 * ls - 2 * ld + md))
    + MulFx(12400, Sin(2 * ls - nm))
    + MulFx(11400, Sin(2 * ld - md))

\* x / 3600 to the nearest unit
PerHour(x) == Sgn(x) * ((Abs(x) + 1800) \div 3600)

\* calc_nutation(t).dpsi = dpsi / 3600, DEG units
nutation_dpsi(t) ==
    PerHour(nutation_series(t, nutation_ls(t), nutation_ms(t), nutation_ld(t),
                            nutation_md(t), nutation_nm(t)))

\* _ABERRATION = 5.69e-3
_ABERRATION == Wide(1, 0, 569000, 0)

\* apparent(djd, ignore_light_travel=True).phi, from the true geocentric
\* longitude lsn and the nutation in longitude dpsi
sun_apparent(lsn, dpsi) == WSub(WAdd(lsn, WFromDeg(dpsi)), _ABERRATION)

(***************************************************************************)
(* astropc/sun/solequ.py                                                   *)
(***************************************************************************)

\* shortest_arc_deg(a, b)
shortest_arc_deg(a, b) ==
    IF WSmaller(Wide(1, 180, 0, 0), WSub(a, b))
    THEN WSub(Wide(1, 360, 0, 0), [WSub(a, b) EXCEPT !.sg = 1])
    ELSE [WSub(a, b) EXCEPT !.sg = 1]

\* dj = (year + k / 4.0) * 365.2422 - 693878.7
SolEquStart(year, k) ==
    WSub(WMul(WAdd(WInt(year), Wide(1, 0, k * 25000000, 0)),
              Wide(1, 365, 24220000, 0)),
         Wide(1, 693878, 70000000, 0))

\* dj += 58.0 * sin(radians(k90 - x))
SolEquAdvance(dj, k90, x) ==
    WAdd(dj, WMul(Wide(1, 58, 0, 0), WSin(WRadians(WSub(k90, x)))))

\* shortest_arc_deg(k90, x) < _DELTA, _DELTA = 1e-6
SolEquDone(k90, x) == WSmaller(shortest_arc_deg(k90, x), Wide(1, 0, 100, 0))

\* SolEquType, and the k the match statement of sol_equ gives each member
SolEquType ==
    {"MARCH_EQUINOX", "JUNE_SOLSTICE", "SEPTEMBER_EQUINOX",
     "DECEMBER_SOLSTICE"}

SolEquK(event_type) ==
    CASE event_type = "MARCH_EQUINOX" -> 0
      [] event_type = "JUNE_SOLSTICE" -> 1
      [] event_type = "SEPTEMBER_EQUINOX" -> 2
      [] event_type = "DECEMBER_SOLSTICE" -> 3

\* The years sol_equ is called for: the year of the test cases and a year
\* far from the epoch, where the Sun's eccentricity polynomial is -0.338.
SolEquYears == {2000, 154000}

InitSolEqu ==
    /\ kep = [s |-> 0, m |-> 0, ea |-> 0, stack |-> <<>>, status |-> "idle"]
    /\ planet = PlanetDef("Mercury")
    /\ sphera = <<>>
    /\ NothingCalled
    /\ NothingApart

solequ_fixed == <<kep, sphera, planet, planets, for_id_cache, orbit_cache,
                  instances, requested, call, positions, ret, ncalls,
                  held, threads, cal, orb>>

\* sol_equ(year, event_type) up to the loop: k, k90 and the first dj.  The
\* local x is not bound before the first pass.
SolEqu(year, event_type) ==
    /\ sol.pc = "idle"
    /\ sol' = [pc |-> "loop", year |-> year, event_type |-> event_type,
               k90 |-> WInt(SolEquK(event_type) * 90),
               dj |-> SolEquStart(year, SolEquK(event_type)),
               x |-> None, visited |-> <<>>]
    /\ UNCHANGED solequ_fixed

\* One pass of the loop: x = apparent(dj).phi, computed as true_geocentric
\* and apparent compute it, one local after the other; dj is advanced, and
\* the test breaks out of the loop to return SolEquEvent(dj, x).  A pass is
\* a function of dj alone: a run that is back at a day number it has started
\* a pass from repeats itself for ever, and the model follows it no further.
SolEquPass ==
    /\ sol.pc = "loop"
    /\ \A i \in 1..Len(sol.visited) : sol.visited[i] # sol.dj
    /\ \E t \in {WDiv(sol.dj, 36525)} :
       \E ls \in {sun_mean_longitude(t)} :
       \E ms \in {sun_mean_anomaly(t)} :
       \E s \in {sun_eccentricity(t)} :
       \E ma \in {SunSolverArgument(WRadians(ms))} :
       \E ea \in {WEccentricAnomaly(s, ma, ma)} :
       \E nu \in {WTrueAnomaly(s, ea)} :
       \E dl \in {sun_dl(t)} :
       \E lsn \in {sun_lsn(nu, ls, ms, dl)} :
       \E dpsi \in {nutation_dpsi(t)} :
       \E x \in {sun_apparent(lsn, dpsi)} :
       \E dj \in {SolEquAdvance(sol.dj, sol.k90, x)} :
          sol' = [sol EXCEPT
                     !.x = <<x>>,
                     !.dj = dj,
                     !.visited = Append(@, sol.dj),
                     !.pc = IF SolEquDone(sol.k90, x) THEN "returned"
                            ELSE "loop"]
    /\ UNCHANGED solequ_fixed

NextSolEqu ==
    \/ \E year \in SolEquYears, event_type \in SolEquType :
          SolEqu(year, event_type)
    \/ SolEquPass

SpecSolEqu == InitSolEqu /\ [][NextSolEqu]_vars

(***************************************************************************)
(* astropc/planets/orbit.py: OElements.instantiate(t) called on its own.   *)
(* The eccentricity is assembled on the wide numbers, which hold the       *)
(* epochs far from 1900 and the sum of a small negative number and 360.    *)
(***************************************************************************)

\* The terms of the eccentricity series in the match statement of
\* Planet.for_id
eccentricity_terms(id) ==
    CASE id = "Mercury" ->
          <<Wide(1, 0, 20561421, 0),
            Wide(1, 0, 2046, 0),
            Wide(-1, 0, 3, 0)>>
      [] id = "Venus" ->
          <<Wide(1, 0, 682069, 0),
            Wide(-1, 0, 4774, 0),
            Wide(1, 0, 9, 1000)>>
      [] id = "Mars" ->
          <<Wide(1, 0, 9331290, 0),
            Wide(1, 0, 9206, 4000),
            Wide(-1, 0, 7, 7000)>>
      [] id = "Jupiter" ->
          <<Wide(1, 0, 4833475, 0),
            Wide(1, 0, 16418, 0),
            Wide(-1, 0, 46, 7600),
            Wide(-1, 0, 0, 1700)>>
      [] id = "Saturn" ->
          <<Wide(1, 0, 5589232, 0),
            Wide(-1, 0, 34550, 0),
            Wide(-1, 0, 72, 8000),
            Wide(1, 0, 0, 740)>>
      [] id = "Uranus" ->
          <<Wide(1, 0, 4634440, 0),
            Wide(-1, 0, 2658, 0),
            Wide(1, 0, 7, 7000)>>
      [] id = "Neptune" ->
          <<Wide(1, 0, 899704, 0),
            Wide(1, 0, 633, 0),
            Wide(-1, 0, 0, 2000)>>
      [] id = "Pluto" ->
          <<Wide(1, 0, 25515000, 0)>>

\* polynome(t, *coeffs) on the wide numbers, folded from place i on
RECURSIVE WPolyFold(_, _, _)
WPolyFold(t, coeffs, i) ==
    IF i = Len(coeffs) THEN coeffs[i]
    ELSE WAdd(WMul(WPolyFold(t, coeffs, i + 1), t), coeffs[i])

\* Terms.assemble(t) = reduce_deg(polynome(t, *self._data))
WTerms_assemble(terms, t) == WReduceDeg(WPolyFold(t, terms, 1))

\* The a + 360 * b * t + c * t^2 + d * t^3 of a mean longitude, reduced
\* to one turn, in DEG units
MeanLongitudeSeries(ml, t) ==
    WToDeg(WReduceDeg(
        WAdd(WAdd(WFromDeg(ml.a),
                  WMul(WMul(Wide(1, ml.bi, ml.bf, 0), Wide(1, 360, 0, 0)),
                       WFromFx(t))),
             WMul(WAdd(WFromDeg(ml.c), WMul(WFromDeg(ml.d), WFromFx(t))),
                  WMul(WFromFx(t), WFromFx(t))))))

\* The arc between two angles of [0, 360] degrees, DEG units
ArcBetween(a, b) ==
    IF Abs(a - b) > 180 * DEG THEN 360 * DEG - Abs(a - b) ELSE Abs(a - b)

\* The epochs t the orbits are instantiated for, in centuries from 1900:
\* the epochs of the contexts, whole centuries, and epochs at which a mean
\* longitude or a mean anomaly comes out just below a whole turn.
OrbitEpochs ==
    {84053388, 5319403, 7318310, 0, 100000000, -100000000, 150000000,
     -9943152, -80633970, -100996721, -140555788, -161414749}

\* Epochs 131 and 150 centuries after 1900
FarEpochs == {Wide(1, 131, 0, 0), Wide(1, 150, 0, 0)}

InitOrbit ==
    /\ kep = [s |-> 0, m |-> 0, ea |-> 0, stack |-> <<>>, status |-> "idle"]
    /\ planet = PlanetDef("Mercury")
    /\ sphera = <<>>
    /\ NothingCalled
    /\ NothingApart

orbit_fixed == <<kep, sphera, planet, planets, for_id_cache, orbit_cache,
                 instances, requested, call, positions, ret, ncalls,
                 held, threads, cal, sol>>

\* Planet.for_id(id).orbit.instantiate(t): the fields of the OrbitInstance,
\* with the mean longitude, the perihelion and the mean anomaly in degrees
\* they were made from.
Instantiate(id, t) ==
    /\ orb.pc = "idle"
    /\ orb' = [pc |-> "instantiated", id |-> id, near |-> TRUE, t |-> t,
               eccentricity |->
                   WTerms_assemble(eccentricity_terms(id), WFromFx(t)),
               ml |-> MLTerms_assemble(PlanetDef(id).orbit.ml, t),
               ph |-> Terms_assemble(PlanetDef(id).orbit.ph, t),
               ma |-> assemble_mean_anomaly(PlanetDef(id).orbit, t),
               fields |-> instantiate(PlanetDef(id).orbit, t)]
    /\ UNCHANGED orbit_fixed

\* The same call for an epoch beyond the S-scaled numbers: the eccentricity
\* of the OrbitInstance.
InstantiateFar(id, t) ==
    /\ orb.pc = "idle"
    /\ orb' = [pc |-> "instantiated", id |-> id, near |-> FALSE, t |-> t,
               eccentricity |-> WTerms_assemble(eccentricity_terms(id), t)]
    /\ UNCHANGED orbit_fixed

NextOrbit ==
    \/ \E id \in PlanetIds, t \in OrbitEpochs : Instantiate(id, t)
    \/ \E id \in PlanetIds, t \in FarEpochs : InstantiateFar(id, t)

SpecOrbit == InitOrbit /\ [][NextOrbit]_vars

(***************************************************************************)
(* Properties of the program                                               *)
(***************************************************************************)

\* The objects _instantiate_orbit of context c has made for id
InstantiatedBy(c, id) ==
    {i \in 1..Len(instances) :
        /\ instances[i].ctx = c /\ instances[i].id = id
        /\ instances[i].by = "_instantiate_orbit"}

\* The objects OElements.instantiate has made for context c and planet id
InstantiatedFor(c, id) ==
    {i \in 1..Len(instances) :
        instances[i].ctx = c /\ instances[i].id = id}

\* C1: on one context _instantiate_orbit is invoked exactly once for every
\* planet id get_orbit_instance was asked for, whatever the number of
\* get_orbit_instance and get_mean_anomaly calls; every call for the id
\* returns the instance the first call made, and each id has an
\* instantiation of its own.
CacheMemoizes ==
    /\ \A key \in DOMAIN requested :
          /\ Cardinality(InstantiatedBy(key[1], key[2])) = 1
          /\ key \in DOMAIN orbit_cache
          /\ orbit_cache[key] \in InstantiatedBy(key[1], key[2])
    /\ \A i \in 1..Len(instances) :
          instances[i].by = "_instantiate_orbit"
             => <<instances[i].ctx, instances[i].id>> \in DOMAIN requested
    /\ ret.op = "get_orbit_instance"
          => ret.value \in InstantiatedBy(ret.ctx, ret.id)

\* An id was asked for more than once on a context that was asked for
\* another id as well, and the last get_orbit_instance call was answered
\* from the cache.
CacheMemoizesWitness ==
    \E k1 \in DOMAIN requested, k2 \in DOMAIN requested :
        /\ requested[k1] >= 2
        /\ k1[1] = k2[1] /\ k1[2] # k2[2]
        /\ ret.op = "get_orbit_instance" /\ ret.ctx = k1[1] /\ ret.id = k1[2]
        /\ ret.value < Len(instances)

\* C2: _get_corrected_helio makes exactly two heliocentric reductions and
\* then finishes, whatever the distance rho1 >= 0 found by the first: there
\* is no third pass and no endless recursion.
TwoPasses ==
    /\ Len(call.passes) <= 2
    /\ call.pc # "RecursionError"
    /\ call.pc \in {"project", "done", "ZeroDivisionError"}
          => Len(call.passes) = 2

\* C5: Planet.for_id fails with InvalidIdentifier for a value that is none
\* of the eight planet identifiers: it returns nothing and stores nothing
\* for it in its cache.
ForIdRejects ==
    /\ DOMAIN for_id_cache \subseteq PlanetIds
    /\ ret.op = "for_id" /\ ret.id \notin PlanetIds
          => ret.status = "InvalidIdentifier"

\* C6: geocentric_position has two outcomes only, a complete
\* EclipticPosition or the failure of the Kepler solver; with a corrected
\* eccentricity below 1 it returns a position whatever the line-of-sight
\* angle ll and the heliocentric latitude psi are, sin(ll) = 0 included.
TwoOutcomes ==
    /\ ret.op = "geocentric_position"
          => ret.status \in {"running", "returned", "NonConvergence"}
    /\ call.pc \in {"idle", "anomaly", "pert", "reduce", "project", "done",
                    "NonConvergence"}

\* C7: geocentric_position takes the OrbitInstance of its planet from the
\* cache of the context: over all the calls on a context the elements of
\* the planet are instantiated at most once, and the instance used in the
\* reduction is the one the cache of the context holds.
UsesCachedInstance ==
    call.pc # "idle" =>
        /\ Cardinality(InstantiatedFor(call.ctx, planet.id)) <= 1
        /\ <<call.ctx, planet.id>> \in DOMAIN orbit_cache
              => call.oi.object = orbit_cache[<<call.ctx, planet.id>>]

\* The last call of the client was geocentric_position and it has returned.
Returned == ret.op = "geocentric_position" /\ ret.status = "returned"

\* The record of the pass with no delay and of the last pass
InitialPass == call.passes[1]
RefinementPass == call.passes[Len(call.passes)]

\* C8: the distance geocentric_position returns is the Earth-planet
\* distance of the pass with no delay; the line-of-sight angle, the
\* projected radius, the longitude and the sine and cosine of the
\* heliocentric latitude that are projected are those of the pass with the
\* delay, whose distance is dropped.
DistanceOfInitialPass ==
    /\ call.pc \in {"project", "done", "ZeroDivisionError"}
          => /\ call.h.rho = InitialPass.rho
             /\ call.h = [RefinementPass EXCEPT !.rho = InitialPass.rho]
    /\ Returned => ret.value.delta = InitialPass.rho

\* A position was returned after two passes that found different distances.
DistanceOfInitialPassWitness ==
    /\ Returned
    /\ Len(call.passes) = 2
    /\ InitialPass.rho # RefinementPass.rho
    /\ InitialPass.ll # RefinementPass.ll
    /\ ret.value.delta = InitialPass.rho

\* C9: the longitude geocentric_position returns is in [0, 360) degrees,
\* for every planet, context and value of the apparent flag.
LongitudeInRange ==
    \A c \in DOMAIN positions :
        positions[c].lmbda >= 0 /\ positions[c].lmbda < 360 * DEG

\* C10: nutation and aberration are applied to the longitude and the
\* latitude if and only if the apparent flag of the context is set; without
\* the flag the geometric values are returned, and the distance is the same
\* for both values of the flag on contexts otherwise identical.
CorrectionsIffApparent ==
    /\ Returned =>
          LET ctx == sphera[call.ctx]
          IN  IF ctx.apparent
              THEN /\ ret.value.lmbda =
                         degrees(ApparentLongitude(ctx, call.lam, call.bet))
                   /\ ret.value.beta =
                         degrees(ApparentLatitude(ctx, call.lam, call.bet))
              ELSE /\ ret.value.lmbda = degrees(call.lam)
                   /\ ret.value.beta = degrees(call.bet)
    /\ \A c1 \in DOMAIN positions, c2 \in DOMAIN positions :
          positions[c1].delta = positions[c2].delta

\* Both contexts have returned a position: the same distance, longitudes
\* and latitudes that differ by the corrections.
CorrectionsIffApparentWitness ==
    /\ DOMAIN positions = {1, 2}
    /\ Returned
    /\ positions[1].lmbda # positions[2].lmbda
    /\ positions[1].beta # positions[2].beta
    /\ positions[1].delta = positions[2].delta
    /\ positions[1].lmbda = degrees(call.lam)

\* C11: get_mean_anomaly(id, delay) returns the mean anomaly M of the cached
\* orbit instance when there is no delay and M - radians(delay *
\* daily_motion) when there is one, so that the delay 0 gives M; the call
\* leaves one instance made for the id by the cache, and the mean anomaly
\* that instance holds is the one it was made with.
MeanAnomalyOfCache ==
    ret.op = "get_mean_anomaly" =>
        LET key == <<ret.ctx, ret.id>>
            orbit == PlanetDef(ret.id).orbit
            M == instances[orbit_cache[key]].fields.mean_anomaly
        IN  /\ key \in DOMAIN orbit_cache
            /\ ret.dt = None => ret.value = M
            /\ ret.dt # None =>
                  ret.value =
                     Fl(M - radians(MulFx(ret.dt[1],
                                          OElements_daily_motion(orbit))))
            /\ ret.dt = <<0>> => ret.value = M
            /\ Cardinality(InstantiatedBy(ret.ctx, ret.id)) = 1
            /\ M = instantiate(orbit, sphera[ret.ctx].t).mean_anomaly

\* The mean anomaly of an id was asked for with a delay after its instance
\* was cached, and the value returned is not the one the instance holds.
MeanAnomalyOfCacheWitness ==
    /\ ret.op = "get_mean_anomaly"
    /\ ret.dt # None /\ ret.dt # <<0>>
    /\ requested[<<ret.ctx, ret.id>>] >= 2
    /\ ret.value # instances[orbit_cache[<<ret.ctx, ret.id>>]].fields.mean_anomaly

\* The Planet objects Planet.for_id has made for id
PlanetsMadeFor(id) == {i \in 1..Len(planets) : planets[i].id = id}

\* C12: the registry holds one Planet per identifier: every call of
\* Planet.for_id(id) with one of the eight identifiers returns the same
\* Planet object, its id is the id asked for and its perturbation
\* calculator is the variant of that id; no call changes the definition of
\* a registered Planet.
RegistryOnePerId ==
    /\ \A id \in DOMAIN for_id_cache \cap PlanetIds :
          /\ PlanetsMadeFor(id) = {for_id_cache[id]}
          /\ planets[for_id_cache[id]] = PlanetDef(id)
          /\ PertCalculator_id(planets[for_id_cache[id]].pert_calculator) = id
    /\ ret.op = "for_id" /\ ret.id \in PlanetIds
          => ret.value = for_id_cache[ret.id]
    /\ \A i \in 1..Len(planets) : planets[i].id \in DOMAIN for_id_cache

\* Planet.for_id has been called for an id whose Planet an earlier call
\* made, and it returned that object while the registry holds others.
RegistryOnePerIdWitness ==
    /\ ret.op = "for_id" /\ ret.id \in PlanetIds
    /\ ret.value < Len(planets)
    /\ ncalls >= 2

\* C13: an eccentricity e >= 1 passed to the Kepler solver is surfaced at
\* once as a domain error: the solver makes no iteration with it and
\* returns no number for it.
KeplerRejectsEccentricity ==
    kep.s >= S =>
        /\ kep.status \in {"idle", "running", "DomainError"}
        /\ kep.stack = <<>>

\* C14: the perturbation variant of Pluto returns the PertRecord whose
\* seven fields are 0 for every context and every delay, and reads nothing
\* from the context: the call asks the context for no orbit instance and
\* no planet.
PlutoZeroRecord ==
    [][ret'.op = "get_data" /\ ret'.calc = "PertPluto" /\ ncalls' = ncalls + 1
          => /\ ret'.value = [dl |-> 0, dr |-> 0, dml |-> 0, ds |-> 0,
                              dm |-> 0, da |-> 0, dhl |-> 0]
             /\ UNCHANGED <<sphera, planets, for_id_cache, orbit_cache,
                            instances, requested>>]_vars

\* The calculator of Pluto was called with a delay on a context that holds
\* orbit instances.
PlutoZeroRecordWitness ==
    /\ ret.op = "get_data" /\ ret.calc = "PertPluto"
    /\ ret.dt # 0
    /\ \E key \in DOMAIN orbit_cache : key[1] = ret.ctx
    /\ sphera[ret.ctx].manom_sun # 0

\* The threads that were returned an object for the key
ReturnedFor(c, id) ==
    {i \in DOMAIN threads :
        /\ threads[i].pc = "returned"
        /\ threads[i].ctx = c /\ threads[i].id = id}

\* C15: when threads call get_orbit_instance of one context for one id at
\* the same time, every thread is returned an OrbitInstance whose fields
\* are the elements of the planet instantiated at the t of the context,
\* and so is every later call, which is answered with the stored object;
\* nothing else comes of the race but further instantiations, at most
\* one for each thread that missed.
RaceYieldsEqualInstances ==
    /\ \A i \in DOMAIN threads :
          threads[i].pc = "returned" =>
             /\ threads[i].value \in 1..Len(instances)
             /\ instances[threads[i].value].fields =
                    instantiate(PlanetDef(threads[i].id).orbit,
                                sphera[threads[i].ctx].t)
    /\ \A key \in DOMAIN orbit_cache :
          /\ orbit_cache[key] \in InstantiatedBy(key[1], key[2])
          /\ instances[orbit_cache[key]].fields =
                 instantiate(PlanetDef(key[2]).orbit, sphera[key[1]].t)
    /\ \A c \in DOMAIN sphera, id \in RaceIds :
          Cardinality(InstantiatedBy(c, id)) <= NCallers
    /\ Len(instances) <= Count(requested, <<1, "Mercury">>)
                           + Count(requested, <<1, "Venus">>)
                           + Count(requested, <<2, "Mercury">>)
                           + Count(requested, <<2, "Venus">>)

\* Two threads missed for the same key and each was returned the object it
\* made itself; one of them has been answered from the cache before.
RaceYieldsEqualInstancesWitness ==
    \E c \in DOMAIN sphera, id \in RaceIds :
        \E i \in ReturnedFor(c, id), j \in ReturnedFor(c, id) :
            /\ threads[i].value # threads[j].value
            /\ threads[i].made = threads[i].value
            /\ threads[j].made = threads[j].value
            /\ threads[j].calls = MaxRequests
            /\ Cardinality(InstantiatedBy(c, id)) = NCallers

\* C16: the cache of orbit instances belongs to its context and goes with
\* it: once the client has dropped a context, no structure of the process
\* holds an entry with that context as its key, so neither the context nor
\* its OrbitInstances are kept alive.
CacheOwnedByContext ==
    \A key \in DOMAIN orbit_cache : key[1] \in held

\* C17: but for its cache a context is immutable: no get_orbit_instance,
\* get_mean_anomaly, get_data or geocentric_position call, and no step of
\* one, changes t, the mean anomaly of the Sun, the polar position of the
\* Sun, the obliquity, the nutation, the apparent flag or the six
\* auxiliary angles of any context.
ContextFrame ==
    [][/\ sphera' = sphera
       /\ \A c \in DOMAIN sphera : sphera'[c].aux_sun = AuxSun(sphera[c].t)]_vars

\* geocentric_position has returned a position on a context that was
\* called before; get_mean_anomaly, get_orbit_instance and get_data have
\* run on it for the planet and for those that perturb it, and its
\* auxiliary angles are not all the same.
ContextFrameWitness ==
    /\ ret.op = "geocentric_position" /\ ret.status = "returned"
    /\ ncalls = MaxCalls
    /\ Count(requested, <<call.ctx, planet.id>>) >= 3
    /\ \E id \in PlanetIds \ {planet.id} :
          Count(requested, <<call.ctx, id>>) >= 2
    /\ sphera[call.ctx].aux_sun[2] # sphera[call.ctx].aux_sun[3]
    /\ sphera[call.ctx].obliquity > 23 * DEG

\* C18: cal_date(jul_day(y, m, d)) gives back the year, the month and the
\* day with its hours for every civil date, the years BC and the dates of
\* the Julian calendar included.
CalendarRoundTrip ==
    cal.pc = "back" => cal.found = <<cal.year, cal.month, cal.day>>

\* C19: for every year and every event type sol_equ terminates, and the
\* apparent longitude of the Sun it returns is within 1e-6 degrees, along
\* the shortest arc, of the target angle k * 90: no pass of its loop starts
\* from a day number an earlier pass has started from, and the x of a
\* returned event passes the test of the loop.
SolEquTerminates ==
    /\ sol.pc = "loop"
          => \A i \in 1..Len(sol.visited) : sol.visited[i] # sol.dj
    /\ sol.pc = "returned" => SolEquDone(sol.k90, sol.x[1])

\* C20: every mean anomaly handed to the Kepler solver lies in [0, 2 pi):
\* the sum M + dm is reduced before eccentric_anomaly is called, in the
\* first pass and in the pass with the light-time delay, whatever the sign
\* of the delayed mean anomaly.
SolverArgumentInRange ==
    \A i \in 1..Len(call.solved) :
        call.solved[i] >= 0 /\ call.solved[i] < PI2

\* C21: for each of the eight planets and every epoch t the eccentricity of
\* the instantiated orbit is strictly between 0 and 1 (and with it
\* s = e + ds, which differs from it by the small term ds of the
\* perturbations).
EccentricityInRange ==
    orb.pc = "instantiated" =>
        /\ ~WNegative(orb.eccentricity)
        /\ orb.eccentricity.m # <<0, 0, 0, 0, 0>>
        /\ WSmaller(orb.eccentricity, Wide(1, 1, 0, 0))

\* C25: for every t the mean anomaly of OElements.instantiate(t) is
\* reduce_deg(mean_longitude.assemble(t) - perihelion.assemble(t)), reduced
\* in degrees and then converted to radians, and lies in [0, 2 pi): the
\* degrees are below 360 and the radians below the radians of 360 degrees.
MeanAnomalyOfInstance ==
    orb.pc = "instantiated" /\ orb.near =>
        /\ orb.fields.mean_anomaly = radians(reduce_deg(Fl(orb.ml - orb.ph)))
        /\ orb.ma >= 0 /\ orb.ma < 360 * DEG
        /\ orb.fields.mean_anomaly >= 0
        /\ orb.fields.mean_anomaly < radians(360 * DEG)

\* C26: MLTerms.assemble(t) returns a value of [0, 360) that is congruent
\* modulo 360 to a + 360 * b * t + c * t^2 + d * t^3, for every t, the
\* negative ones included: the two are less than 1e-4 degrees apart on the
\* circle.
MeanLongitudeReduced ==
    orb.pc = "instantiated" /\ orb.near =>
        /\ orb.ml >= 0 /\ orb.ml < 360 * DEG
        /\ ArcBetween(orb.ml, MeanLongitudeSeries(PlanetDef(orb.id).orbit.ml,
                                                  orb.t)) < 100

\* C22: each of the six auxiliary angles aux_sun[0..5] a context stores has
\* been reduced on its own: for every t all six lie in [0, 2 pi), here in
\* units of 1e-6 rad.
AuxSunReduced ==
    \A c \in DOMAIN sphera : \A i \in 1..6 :
        sphera[c].aux_sun[i] >= 0 /\ sphera[c].aux_sun[i] < 6283185

PerturbingPlanets(id) ==
    CASE id = "Mercury" -> {"Venus", "Jupiter"}
      [] id = "Venus" -> {"Jupiter"}
      [] id = "Mars" -> {"Venus", "Jupiter"}
      [] OTHER -> {}

\* The argument dt of frame k of _get_corrected_helio
DelayOfFrame(k) == IF k = 1 THEN 0 ELSE LightTime(call.passes[k - 1].rho)

\* The planets get_data asked the mean anomalies of in frame k
AskedByGetData(k) ==
    {call.asked[i].id : i \in {j \in 1..Len(call.asked) :
                                 /\ call.asked[j].frame = k
                                 /\ call.asked[j].by = "get_data"}}

\* C23: within one pass with light-time delay dt every mean anomaly the
\* perturbation variant obtains from the context (the planet's own and those
\* of Venus and Jupiter for Mercury, Jupiter for Venus, Venus and Jupiter for
\* Mars) is requested with that same dt, which is also the dt of the planet's
\* own mean anomaly in the reduction of that pass.
SameDelayInPass ==
    /\ \A i \in 1..Len(call.asked) :
          call.asked[i].dt = <<DelayOfFrame(call.asked[i].frame)>>
    /\ \A k \in 1..Len(call.passes) :
          planet = PlanetDef(planet.id) /\ planet.id \in {"Mercury", "Venus", "Mars"}
             => /\ AskedByGetData(k) \ {planet.id} = PerturbingPlanets(planet.id)
                /\ \E i \in 1..Len(call.asked) :
                      /\ call.asked[i].frame = k
                      /\ call.asked[i].by = "_get_corrected_helio"
                      /\ call.asked[i].id = planet.id
    /\ ret.op = "get_data"
          => \A i \in DOMAIN ret.asked : ret.asked[i].dt = <<ret.dt>>

SameDelayInPassWitness ==
    /\ planet.id = "Mars"
    /\ call.pc = "reduce"
    /\ Len(call.passes) = 1
    /\ call.dt > 0
    /\ Len(call.asked) = 8
    /\ call.asked[8] = [frame |-> 2, by |-> "get_data", id |-> "Mars",
                        dt |-> <<call.dt>>]

\* C27: for a fixed context the EclipticPosition geocentric_position returns
\* for a planet, and the PertRecord its get_data returns for a given delay,
\* are the same whatever positions, orbit instances or mean anomalies were
\* requested on that context (or the other) before, and a repeated call
\* returns the same: each is what the call returns when it is the first
\* call of the program.
DeterministicResults ==
    /\ ret.op = "get_data"
          => ret.value = get_data_fresh(ret.calc, ret.ctx, ret.dt)
    /\ ret.op = "geocentric_position" /\ ret.status = "returned"
          => ret.value = geocentric_position_fresh(planet, call.ctx)
    /\ \A c \in DOMAIN positions :
          positions[c] = geocentric_position_fresh(planet, c)

\* A position returned by the second call, the first having asked the same
\* context for a planet the position does not need
DeterministicResultsWitness ==
    /\ ncalls = 2
    /\ planet.id = "Saturn"
    /\ ret.op = "geocentric_position" /\ ret.status = "returned"
    /\ call.ctx = 2
    /\ <<2, "Venus">> \in DOMAIN orbit_cache
    /\ <<1, "Saturn">> \notin DOMAIN orbit_cache

\* The planets whose get_data is said not to read its dt
OuterPlanets == {"Jupiter", "Saturn", "Uranus", "Neptune", "Pluto"}

\* C28: for Jupiter, Saturn, Uranus, Neptune and Pluto the PertRecord of
\* get_data(ctx, dt) does not depend on dt: the second pass uses the
\* perturbations of the first, and its record is the reduction of the
\* planet's own delayed mean anomaly with them.
OuterPerturbationsIgnoreDelay ==
    /\ ret.op = "get_data" /\ PertCalculator_id(ret.calc) \in OuterPlanets
          => \A dt \in ClientDts \cup {0} :
                ret.value = get_data(ret.calc, Memory, ret.ctx, dt)
    /\ planet.id \in OuterPlanets /\ call.pc \in {"reduce", "project", "done"}
          => call.pert = get_data(planet.pert_calculator, Memory, call.ctx, 0)
    /\ planet.id \in OuterPlanets /\ Len(call.passes) = 2
          => call.passes[2] =
                _calculate_heliocentric(
                    call.oi.fields,
                    ctx_get_mean_anomaly(Memory, call.ctx, planet.id,
                                         <<DelayOfFrame(2)>>),
                    sphera[call.ctx].sun_geo.rho,
                    EarthLongitude(sphera[call.ctx]),
                    get_data(planet.pert_calculator, Memory, call.ctx, 0))

OuterPerturbationsIgnoreDelayWitness ==
    /\ planet.id = "Uranus"
    /\ Len(call.passes) = 2
    /\ call.dt > 0
    /\ call.pert.dl # 0 /\ call.pert.dm # 0
    /\ call.passes[2] # call.passes[1]

\* The context of the running call had not been asked for anything when the
\* call began: it is the first call of the client, or the second after a
\* position returned by the other context.
FreshBefore(c) ==
    \/ ncalls = 1
    \/ ncalls = 2 /\ DOMAIN positions = DOMAIN sphera

\* The keys of the orbit cache that belong to context c
CachedOf(c) == {key \in DOMAIN orbit_cache : key[1] = c}

CacheIsolatedPerContext ==
    /\ ret.op = "get_orbit_instance"
          => /\ instances[ret.value].ctx = ret.ctx
             /\ instances[ret.value].fields =
                   instantiate(PlanetDef(ret.id).orbit, sphera[ret.ctx].t)
    /\ ret.op = "get_mean_anomaly"
          => ret.value = mean_anomaly_value(sphera[ret.ctx].t, ret.id, ret.dt)
    /\ \A key \in DOMAIN orbit_cache :
          /\ instances[orbit_cache[key]].ctx = key[1]
          /\ instances[orbit_cache[key]].fields =
                instantiate(PlanetDef(key[2]).orbit, sphera[key[1]].t)

CacheIsolatedPerContextWitness ==
    /\ ncalls = 2
    /\ ret.op = "get_orbit_instance"
    /\ ret.ctx = 2
    /\ <<1, ret.id>> \in DOMAIN orbit_cache
    /\ sphera[1].t # sphera[2].t
    /\ instances[orbit_cache[<<1, ret.id>>]].fields
          # instances[ret.value].fields

====
